---- MODULE Spec2Model ----
(***************************************************************************)
(* Model of the streaming converter of src/utils/streamConverter.ts        *)
(* (convertOpenAIStreamToAnthropic and the handlers it calls) and of the   *)
(* finish-reason mapping of the non-streaming transcoder.                  *)
(*                                                                         *)
(* Strings the code inspects (text deltas, ids, names, argument fragments) *)
(* are sequences of one-character strings, so that the regular-expression  *)
(* scan, trim(), replace() and startsWith() are computed, not assumed.     *)
(***************************************************************************)
EXTENDS Integers, Sequences, FiniteSets, TLC

VARIABLES state, controller, pc, linesLeft, delivered, rest, pieces, lastChunk,
          reader, wire, buffer, hist, input, output, twin, forward

\* the upstream bytes and the loop's line buffer; the transcoders' call; the
\* two concurrent conversions and the forwarding of one request
ioVars == <<wire, buffer, hist>>
sideVars == <<twin, forward>>
callVars == <<input, output, sideVars>>

vars == <<state, controller, pc, linesLeft, delivered, rest, pieces, lastChunk,
          reader, wire, buffer, hist, input, output, twin, forward>>

(***************************************************************************)
(* Bounds of the model.                                                    *)
(***************************************************************************)
\* lines the upstream delivers in one run
MaxChunks == 4
\* complete lines one reader.read() may carry
MaxLinesPerRead == 2
\* lines each of two concurrent conversions reads
MaxTwinLines == 2
\* values the forwarder writes to the caller from one converted stream
MaxWrites == 3
\* text deltas the fixed text of the reasoning scenario is split into
MaxPieces == 3

(***************************************************************************)
(* String helpers (JavaScript String.prototype semantics).                 *)
(***************************************************************************)
Min(S) == CHOOSE x \in S : \A y \in S : x <= y

\* s.indexOf(pat, from) with 1-based positions; 0 when absent
IndexOf(s, pat, from) ==
    LET cands == {i \in from..(Len(s) - Len(pat) + 1) :
                     SubSeq(s, i, i + Len(pat) - 1) = pat}
    IN IF cands = {} THEN 0 ELSE Min(cands)

\* s.startsWith(pat)
StartsWith(s, pat) == Len(s) >= Len(pat) /\ SubSeq(s, 1, Len(pat)) = pat

WhiteSpace == {" ", "\n", "\t", "\r"}

RECURSIVE TrimStart(_)
TrimStart(s) == IF s # <<>> /\ Head(s) \in WhiteSpace THEN TrimStart(Tail(s)) ELSE s

RECURSIVE TrimEnd(_)
TrimEnd(s) ==
    IF s # <<>> /\ s[Len(s)] \in WhiteSpace THEN TrimEnd(SubSeq(s, 1, Len(s) - 1)) ELSE s

\* s.trim()
Trim(s) == TrimEnd(TrimStart(s))

\* s.replace(pat, "") for a string pattern: the first occurrence only
ReplaceFirst(s, pat) ==
    LET i == IndexOf(s, pat, 1)
    IN IF i = 0 THEN s
       ELSE SubSeq(s, 1, i - 1) \o SubSeq(s, i + Len(pat), Len(s))

(***************************************************************************)
(* The three tag patterns of extractReasoningFromContent.                  *)
(***************************************************************************)
TagThinking == <<"t","h","i","n","k","i","n","g">>
TagReasoning == <<"r","e","a","s","o","n","i","n","g">>
TagThoughts == <<"t","h","o","u","g","h","t","s">>

OpenTag(t) == <<"<">> \o t \o <<">">>
CloseTag(t) == <<"<","/">> \o t \o <<">">>

thinkingPatterns == <<TagThinking, TagReasoning, TagThoughts>>

\* content.matchAll(/<t>([\s\S]*?)<\/t>/g): the non-overlapping lazy matches
\* from position `from` on, each as [from, to, inner]
RECURSIVE MatchAll(_, _, _)
MatchAll(s, t, from) ==
    LET i == IndexOf(s, OpenTag(t), from)
        j == IF i = 0 THEN 0 ELSE IndexOf(s, CloseTag(t), i + Len(OpenTag(t)))
    IN IF i = 0 \/ j = 0 THEN <<>>
       ELSE <<[from |-> i, to |-> j + Len(CloseTag(t)) - 1,
               inner |-> SubSeq(s, i + Len(OpenTag(t)), j - 1)]>>
            \o MatchAll(s, t, j + Len(CloseTag(t)))

\* content.replace(pattern, ""): every match of the global pattern removed
RECURSIVE RemoveMatches(_, _, _)
RemoveMatches(s, ms, from) ==
    IF ms = <<>> THEN SubSeq(s, from, Len(s))
    ELSE SubSeq(s, from, ms[1].from - 1) \o RemoveMatches(s, Tail(ms), ms[1].to + 1)

\* the loop over thinkingPatterns from pattern number k on
RECURSIVE ExtractFrom(_, _)
ExtractFrom(content, k) ==
    IF k > Len(thinkingPatterns) THEN [found |-> FALSE, thinking |-> <<>>, regular |-> content]
    ELSE LET ms == MatchAll(content, thinkingPatterns[k], 1)
         IN IF Len(ms) > 0
            THEN [found |-> TRUE,
                  thinking |-> Trim(ms[1].inner),
                  regular |-> Trim(RemoveMatches(content, ms, 1))]
            ELSE ExtractFrom(content, k + 1)

\* thinking is null when found is FALSE
extractReasoningFromContent(content) == ExtractFrom(content, 1)

(***************************************************************************)
(* Output events.  One record shape for every SSE event; a field an event  *)
(* does not carry holds -1, "" or <<>>.  `src` is a history annotation (the *)
(* source tool-call index a tool event was produced for), not wire data.   *)
(***************************************************************************)
Ev(type, index, kind) ==
    [type |-> type, index |-> index, kind |-> kind, text |-> <<>>, id |-> <<>>,
     name |-> <<>>, stop_reason |-> "", model |-> "", input_tokens |-> -1,
     output_tokens |-> -1, src |-> -1]

MessageStartEv(model) == [Ev("message_start", -1, "") EXCEPT !.model = model,
                             !.input_tokens = 1, !.output_tokens = 1]
ErrorEv == Ev("error", -1, "api_error")
BlockStartEv(index, kind) == Ev("content_block_start", index, kind)
ToolStartEv(index, id, name, src) ==
    [Ev("content_block_start", index, "tool_use") EXCEPT !.id = id, !.name = name, !.src = src]
DeltaEv(index, kind, text) == [Ev("content_block_delta", index, kind) EXCEPT !.text = text]
ToolDeltaEv(index, text, src) ==
    [Ev("content_block_delta", index, "input_json_delta") EXCEPT !.text = text, !.src = src]
BlockStopEv(index) == Ev("content_block_stop", index, "")
MessageDeltaEv(reason, inTok, outTok) ==
    [Ev("message_delta", -1, "") EXCEPT !.stop_reason = reason,
        !.input_tokens = inTok, !.output_tokens = outTok]
MessageStopEv == Ev("message_stop", -1, "")

(***************************************************************************)
(* TypeSafeStreamController: the wrapper's isClosed flag, the underlying   *)
(* controller (sink) and what has been enqueued on it.                     *)
(***************************************************************************)
InitController == [isClosed |-> FALSE, sink |-> "open", events |-> <<>>]

\* mutant: the TypeError of a closed underlying controller is a fault
enqueueEvent_Fault(c, ev) ==
    IF c.isClosed THEN c
    ELSE IF c.sink = "open" THEN [c EXCEPT !.events = Append(@, ev)]
    ELSE [c EXCEPT !.sink = "errored"]

\* enqueue / enqueueEvent: a no-op once closed; an underlying controller that
\* is already closed throws the TypeError that marks the wrapper closed
enqueueEvent(c, ev) ==
    IF c.isClosed THEN c
    ELSE IF c.sink = "open" THEN [c EXCEPT !.events = Append(@, ev)]
    ELSE [c EXCEPT !.isClosed = TRUE]

\* close()
close(c) ==
    IF c.isClosed THEN c
    ELSE IF c.sink = "open" THEN [c EXCEPT !.sink = "closed", !.isClosed = TRUE]
    ELSE [c EXCEPT !.isClosed = TRUE]

\* mutant: the error is swallowed
error_Swallowed(c) == c

\* error(): errors the underlying controller unless the wrapper is closed; an
\* underlying stream that is no longer readable ignores it
error(c) ==
    IF c.isClosed THEN c
    ELSE IF c.sink = "open" THEN [c EXCEPT !.sink = "errored"]
    ELSE c

(***************************************************************************)
(* StreamState after construction.                                         *)
(***************************************************************************)
EmptyMap == [k \in {} |-> 0]

InitState ==
    [model |-> "unknown",
     hasStarted |-> FALSE,
     hasTextContentStarted |-> FALSE,
     hasFinished |-> FALSE,
     isThinkingStarted |-> FALSE,
     contentIndex |-> 0,
     totalChunks |-> 0,
     contentChunks |-> 0,
     toolCallChunks |-> 0,
     toolCalls |-> EmptyMap,
     toolCallIndexToContentBlockIndex |-> EmptyMap,
     contentBuffer |-> <<>>,
     hasThinkingContent |-> FALSE]

\* the pair the handlers thread through: st is the StreamState, c the controller
World(st, c) == [st |-> st, c |-> c]
Emit(w, ev) == [w EXCEPT !.c = enqueueEvent(w.c, ev)]

\* events addressed to state.contentIndex, and the cursor's increment
emitStartAtCursor(w, kind) == Emit(w, BlockStartEv(w.st.contentIndex, kind))
emitDeltaAtCursor(w, kind, text) == Emit(w, DeltaEv(w.st.contentIndex, kind, text))
emitStopAtCursor(w) == Emit(w, BlockStopEv(w.st.contentIndex))
\* mutant: the cursor stays where it is
advanceCursor_Stay(w) == w

advanceCursor(w) == [w EXCEPT !.st.contentIndex = @ + 1]

(***************************************************************************)
(* Text handlers.                                                          *)
(***************************************************************************)
\* handleRegularTextContent, first if: open the text block once
openTextBlock(w) ==
    IF ~w.st.hasTextContentStarted /\ ~w.st.hasFinished
    THEN emitStartAtCursor([w EXCEPT !.st.hasTextContentStarted = TRUE], "text")
    ELSE w

\* handleRegularTextContent, second if: the text_delta
sendTextDelta(w, content) ==
    IF ~w.c.isClosed /\ ~w.st.hasFinished
    THEN emitDeltaAtCursor(w, "text_delta", content)
    ELSE w

handleRegularTextContent(w, content) == sendTextDelta(openTextBlock(w), content)

\* "Close any existing text content block"
closeTextBlock(w) ==
    IF w.st.hasTextContentStarted THEN advanceCursor(emitStopAtCursor(w)) ELSE w

markThinkingStarted(w) ==
    [w EXCEPT !.st.isThinkingStarted = TRUE, !.st.hasThinkingContent = TRUE]

\* handleExtractedThinking, the `if (!state.isThinkingStarted)` block
openThinkingBlock(w) ==
    IF ~w.st.isThinkingStarted
    THEN markThinkingStarted(emitStartAtCursor(closeTextBlock(w), "thinking"))
    ELSE w

\* "Close thinking block"
closeThinkingBlock(w) ==
    [advanceCursor(emitStopAtCursor(w)) EXCEPT !.st.isThinkingStarted = FALSE]

handleExtractedThinking(w, thinkingContent) ==
    closeThinkingBlock(
        emitDeltaAtCursor(openThinkingBlock(w), "thinking_delta", thinkingContent))

\* "Handle thinking content if found"; r is the result of the extraction
thinkingStep(w, r) ==
    IF r.found /\ r.thinking # <<>> /\ ~w.st.hasThinkingContent
    THEN handleExtractedThinking(w, r.thinking)
    ELSE w

\* mutant: the emitted text stays in the buffer
dropFromBuffer_Keep(w, regular) == w

\* "Update buffer to remove processed content"
dropFromBuffer(w, regular) == [w EXCEPT !.st.contentBuffer = ReplaceFirst(@, regular)]

\* "Handle regular content"
regularStep(w, r) ==
    IF r.regular # <<>>
    THEN dropFromBuffer(handleRegularTextContent(w, r.regular), r.regular)
    ELSE w

applyExtraction(w, r) == regularStep(thinkingStep(w, r), r)

appendContent(w, content) ==
    [w EXCEPT !.st.contentChunks = @ + 1, !.st.contentBuffer = @ \o content]

extractFromBuffer(w) == applyExtraction(w, extractReasoningFromContent(w.st.contentBuffer))

handleTextContentWithReasoning(w, content) == extractFromBuffer(appendContent(w, content))

(***************************************************************************)
(* Tool calls.  A tool-call delta is [index, id, name, arguments]; an      *)
(* absent index is -1, an absent (or empty, equally falsy) string is <<>>. *)
(***************************************************************************)
\* Date.now() in decimal; the value takes no part in any decision
NowDigits == <<"1", "7">>

CallPrefix == <<"c","a","l","l","_">>
ToolPrefix == <<"t","o","o","l","_">>

PlaceholderId(toolCallIndex) ==
    CallPrefix \o NowDigits \o <<"_">> \o <<ToString(toolCallIndex)>>
PlaceholderName(toolCallIndex) == ToolPrefix \o <<ToString(toolCallIndex)>>

MapSet(m, k, v) == [x \in DOMAIN m \cup {k} |-> IF x = k THEN v ELSE m[x]]

\* toolCall.id || `call_...`, toolCall.function?.name || `tool_...`
toolCallIdOf(toolCall, toolCallIndex) ==
    IF toolCall.id # <<>> THEN toolCall.id ELSE PlaceholderId(toolCallIndex)
toolCallNameOf(toolCall, toolCallIndex) ==
    IF toolCall.name # <<>> THEN toolCall.name ELSE PlaceholderName(toolCallIndex)

\* newContentBlockIndex
newContentBlockIndexOf(st) ==
    IF st.hasTextContentStarted
    THEN Cardinality(DOMAIN st.toolCallIndexToContentBlockIndex) + 1
    ELSE Cardinality(DOMAIN st.toolCallIndexToContentBlockIndex)

\* `if (newContentBlockIndex !== 0)`: close the block at the cursor
closeBeforeTool(w, newContentBlockIndex) ==
    IF newContentBlockIndex # 0 THEN advanceCursor(emitStopAtCursor(w)) ELSE w

emitToolStart(w, toolCall, toolCallIndex) ==
    Emit(w, ToolStartEv(w.st.contentIndex, toolCallIdOf(toolCall, toolCallIndex),
                        toolCallNameOf(toolCall, toolCallIndex), toolCallIndex))

recordToolCall(w, toolCall, toolCallIndex, newContentBlockIndex) ==
    [w EXCEPT
       !.st.toolCallIndexToContentBlockIndex =
           MapSet(@, toolCallIndex, newContentBlockIndex),
       !.st.toolCalls =
           MapSet(@, toolCallIndex,
                  [id |-> toolCallIdOf(toolCall, toolCallIndex),
                   name |-> toolCallNameOf(toolCall, toolCallIndex),
                   arguments |-> <<>>,
                   contentBlockIndex |-> newContentBlockIndex])]

openToolCallAt(w, toolCall, toolCallIndex, newContentBlockIndex) ==
    recordToolCall(
        emitToolStart(closeBeforeTool(w, newContentBlockIndex), toolCall, toolCallIndex),
        toolCall, toolCallIndex, newContentBlockIndex)

\* first sight of a source index: close the previous block, open a tool_use
\* block and record the tool call
openToolCall(w, toolCall, toolCallIndex) ==
    openToolCallAt(w, toolCall, toolCallIndex, newContentBlockIndexOf(w.st))

wasTemporary(existingToolCall) ==
    StartsWith(existingToolCall.id, CallPrefix) /\ StartsWith(existingToolCall.name, ToolPrefix)

\* a known source index whose delta supplies id and function.name
renameToolCall(w, toolCall, toolCallIndex) ==
    IF wasTemporary(w.st.toolCalls[toolCallIndex])
    THEN [w EXCEPT !.st.toolCalls[toolCallIndex].id = toolCall.id,
                   !.st.toolCalls[toolCallIndex].name = toolCall.name]
    ELSE w

\* currentToolCall.arguments += toolCall.function.arguments
appendArguments(w, toolCall, toolCallIndex) ==
    IF toolCallIndex \in DOMAIN w.st.toolCalls
    THEN [w EXCEPT !.st.toolCalls[toolCallIndex].arguments = @ \o toolCall.arguments]
    ELSE w

\* the argument fragment of a delta: accumulated, and emitted at the cursor.
\* JSON.stringify of a string does not throw, so the catch branch is not taken.
emitToolArguments(w, toolCall, toolCallIndex) ==
    IF toolCall.arguments # <<>> /\ ~w.c.isClosed /\ ~w.st.hasFinished
    THEN Emit(appendArguments(w, toolCall, toolCallIndex),
              ToolDeltaEv(w.st.contentIndex, toolCall.arguments, toolCallIndex))
    ELSE w

\* mutant: a delta that supplies id and name opens a block again
openOrRename_Reopen(w, toolCall, toolCallIndex) ==
    IF toolCallIndex \notin DOMAIN w.st.toolCallIndexToContentBlockIndex
       \/ (toolCall.id # <<>> /\ toolCall.name # <<>>)
    THEN openToolCall(w, toolCall, toolCallIndex)
    ELSE w

\* the if / else-if on isUnknownIndex
openOrRename(w, toolCall, toolCallIndex) ==
    IF toolCallIndex \notin DOMAIN w.st.toolCallIndexToContentBlockIndex
    THEN openToolCall(w, toolCall, toolCallIndex)
    ELSE IF toolCall.id # <<>> /\ toolCall.name # <<>>
         THEN renameToolCall(w, toolCall, toolCallIndex)
         ELSE w

\* the body of the for loop of handleToolCalls for one entry that was not
\* skipped
handleToolCall(w, toolCall, toolCallIndex) ==
    emitToolArguments(openOrRename(w, toolCall, toolCallIndex), toolCall, toolCallIndex)

\* toolCall.index ?? 0
toolCallIndexOf(toolCall) == IF toolCall.index = -1 THEN 0 ELSE toolCall.index

\* mutant: every entry is handled, whatever its index
RECURSIVE ToolCallLoop_All(_, _, _)
ToolCallLoop_All(w, toolCalls, processedInThisChunk) ==
    IF toolCalls = <<>> \/ w.c.isClosed THEN w
    ELSE ToolCallLoop_All(
             handleToolCall(w, Head(toolCalls), toolCallIndexOf(Head(toolCalls))),
             Tail(toolCalls), processedInThisChunk)

\* the for loop of handleToolCalls over the entries still to visit
RECURSIVE ToolCallLoop(_, _, _)
ToolCallLoop(w, toolCalls, processedInThisChunk) ==
    IF toolCalls = <<>> \/ w.c.isClosed THEN w
    ELSE IF toolCallIndexOf(Head(toolCalls)) \in processedInThisChunk
         THEN ToolCallLoop(w, Tail(toolCalls), processedInThisChunk)
         ELSE ToolCallLoop(
                  handleToolCall(w, Head(toolCalls), toolCallIndexOf(Head(toolCalls))),
                  Tail(toolCalls),
                  processedInThisChunk \cup {toolCallIndexOf(Head(toolCalls))})

handleToolCalls(w, toolCalls) ==
    ToolCallLoop([w EXCEPT !.st.toolCallChunks = @ + 1], toolCalls, {})

(***************************************************************************)
(* Finish reason.                                                          *)
(***************************************************************************)
\* the own properties of the stopReasonMapping object literal
stopReasonMapping ==
    [k \in {"stop", "length", "tool_calls", "content_filter"} |->
        CASE k = "stop" -> "end_turn"
          [] k = "length" -> "max_tokens"
          [] k = "tool_calls" -> "tool_use"
          [] k = "content_filter" -> "stop_sequence"]

\* property names every object literal inherits from Object.prototype
ObjectPrototypeKeys ==
    {"constructor", "toString", "toLocaleString", "valueOf", "hasOwnProperty",
     "isPrototypeOf", "propertyIsEnumerable", "__proto__"}

\* what reading an inherited property yields: a truthy value that is no string
Inherited == "[inherited]"

\* stopReasonMapping[finishReason] || "end_turn"
MapStopReason(finishReason) ==
    IF finishReason \in DOMAIN stopReasonMapping THEN stopReasonMapping[finishReason]
    ELSE IF finishReason \in ObjectPrototypeKeys THEN Inherited
    ELSE "end_turn"

\* usage?.prompt_tokens || 0: an absent count is -1
OrZero(n) == IF n = -1 THEN 0 ELSE n

\* mutant: the finished latch is never set
latchFinished_Never(w) == w

\* state.hasFinished = true
latchFinished(w) == [w EXCEPT !.st.hasFinished = TRUE]

\* the content_block_stop of handleFinishReason
closeOnFinish(w) ==
    IF (w.st.hasTextContentStarted \/ w.st.toolCallChunks > 0) /\ ~w.c.isClosed
    THEN emitStopAtCursor(w)
    ELSE w

\* mutant: message_stop sent before message_delta
sendMessageEnd_Swapped(w, finishReason, usage) ==
    IF ~w.c.isClosed
    THEN Emit(Emit(w, MessageStopEv),
              MessageDeltaEv(MapStopReason(finishReason),
                             OrZero(usage.prompt_tokens),
                             OrZero(usage.completion_tokens)))
    ELSE w

\* message_delta, then message_stop
sendMessageEnd(w, finishReason, usage) ==
    IF ~w.c.isClosed
    THEN Emit(Emit(w, MessageDeltaEv(MapStopReason(finishReason),
                                     OrZero(usage.prompt_tokens),
                                     OrZero(usage.completion_tokens))),
              MessageStopEv)
    ELSE w

\* mutant: the open block is closed after message_stop
handleFinishReason_StopFirst(w, finishReason, usage) ==
    closeOnFinish(sendMessageEnd(latchFinished(w), finishReason, usage))

handleFinishReason(w, finishReason, usage) ==
    sendMessageEnd(closeOnFinish(latchFinished(w)), finishReason, usage)

(***************************************************************************)
(* The stop reason of the non-streaming transcoder, transformOpenAIToClaude.*)
(***************************************************************************)
responseStopReasonMapping ==
    [k \in {"stop", "length", "tool_calls", "content_filter"} |->
        CASE k = "stop" -> "end_turn"
          [] k = "length" -> "max_tokens"
          [] k = "tool_calls" -> "tool_use"
          [] k = "content_filter" -> "stop_sequence"]

\* stopReasonMapping[choice.finish_reason] || "end_turn"; "" is an absent or
\* null finish reason
ResponseStopReason(finishReason) ==
    IF finishReason \in DOMAIN responseStopReasonMapping
    THEN responseStopReasonMapping[finishReason]
    ELSE IF finishReason \in ObjectPrototypeKeys THEN Inherited
    ELSE "end_turn"

(***************************************************************************)
(* processOpenAIChunk.  A chunk is                                         *)
(*   [hasId, model, choices, content, hasToolCalls, tool_calls,            *)
(*    finish_reason, usage]                                                *)
(* with model "" when absent, choices "absent", "empty" or "one" (only the *)
(* first choice is read), content <<>> when absent or empty, finish_reason *)
(* "" when absent, usage counts -1 when absent.                            *)
(***************************************************************************)
countChunk(w) == [w EXCEPT !.st.totalChunks = @ + 1]

\* "Update model from chunk"
updateModel(w, chunk) == IF chunk.model # "" THEN [w EXCEPT !.st.model = chunk.model] ELSE w

\* mutant: message_start sent for every chunk
sendMessageStart_EveryChunk(w) ==
    IF ~w.c.isClosed /\ ~w.st.hasFinished
    THEN Emit([w EXCEPT !.st.hasStarted = TRUE], MessageStartEv(w.st.model))
    ELSE w

\* "Send message_start if this is the first chunk"
sendMessageStart(w) ==
    IF ~w.st.hasStarted /\ ~w.c.isClosed /\ ~w.st.hasFinished
    THEN Emit([w EXCEPT !.st.hasStarted = TRUE], MessageStartEv(w.st.model))
    ELSE w

contentStep(w, chunk) ==
    IF chunk.content # <<>> /\ ~w.c.isClosed /\ ~w.st.hasFinished
    THEN handleTextContentWithReasoning(w, chunk.content)
    ELSE w

toolCallsStep(w, chunk) ==
    IF chunk.hasToolCalls /\ ~w.c.isClosed /\ ~w.st.hasFinished
    THEN handleToolCalls(w, chunk.tool_calls)
    ELSE w

finishStep(w, chunk) ==
    IF chunk.finish_reason # "" /\ ~w.c.isClosed /\ ~w.st.hasFinished
    THEN handleFinishReason(w, chunk.finish_reason, chunk.usage)
    ELSE w

\* from `const choice = chunk.choices?.[0]` on
processChoice(w, chunk) ==
    IF chunk.choices # "one" THEN w
    ELSE finishStep(toolCallsStep(contentStep(w, chunk), chunk), chunk)

\* mutant: a chunk of invalid format ends the conversion
processOpenAIChunk_InvalidEnds(w, chunk) ==
    IF chunk.choices = "absent" /\ chunk.model = "" /\ ~chunk.hasId
    THEN [Emit(countChunk(w), ErrorEv) EXCEPT !.st.hasFinished = TRUE]
    ELSE processChoice(sendMessageStart(updateModel(countChunk(w), chunk)), chunk)

processOpenAIChunk(w, chunk) ==
    IF chunk.choices = "absent" /\ chunk.model = "" /\ ~chunk.hasId
    THEN Emit(countChunk(w), ErrorEv)
    ELSE processChoice(sendMessageStart(updateModel(countChunk(w), chunk)), chunk)

(***************************************************************************)
(* Inputs: the chunks the upstream may send.                               *)
(***************************************************************************)
NoUsage == [prompt_tokens |-> -1, completion_tokens |-> -1]

Chunk(hasId, model, choices, content, hasToolCalls, toolCalls, finishReason, usage) ==
    [hasId |-> hasId, model |-> model, choices |-> choices, content |-> content,
     hasToolCalls |-> hasToolCalls, tool_calls |-> toolCalls,
     finish_reason |-> finishReason, usage |-> usage]

TextChunk(content) == Chunk(TRUE, "", "one", content, FALSE, <<>>, "", NoUsage)
ToolChunk(toolCalls) == Chunk(TRUE, "", "one", <<>>, TRUE, toolCalls, "", NoUsage)
FinishChunk(finishReason, usage) ==
    Chunk(TRUE, "", "one", <<>>, FALSE, <<>>, finishReason, usage)

ToolCallDelta(index, id, name, arguments) ==
    [index |-> index, id |-> id, name |-> name, arguments |-> arguments]

RealId == <<"c","a","l","l","_","9">>
RealName == <<"g","e","t">>
ArgsFragment == <<"{">>

TextDeltas ==
    { <<"a">>,
      OpenTag(TagThinking),
      <<"x">> \o CloseTag(TagThinking),
      OpenTag(TagThinking) \o <<"y">> \o CloseTag(TagThinking) }

ToolCallLists ==
    { <<ToolCallDelta(-1, <<>>, <<>>, <<>>)>>,
      <<ToolCallDelta(0, RealId, RealName, <<>>)>>,
      <<ToolCallDelta(0, <<>>, <<>>, ArgsFragment)>>,
      <<ToolCallDelta(1, <<>>, <<>>, ArgsFragment)>>,
      <<ToolCallDelta(1, RealId, RealName, <<>>)>>,
      <<ToolCallDelta(0, <<>>, <<>>, ArgsFragment), ToolCallDelta(0, RealId, RealName, ArgsFragment)>>,
      <<ToolCallDelta(0, <<>>, <<>>, ArgsFragment), ToolCallDelta(1, <<>>, <<>>, ArgsFragment)>>,
      <<>> }

FinishReasons == {"stop", "length", "tool_calls", "content_filter", "other", "constructor"}

Usages == { NoUsage,
            [prompt_tokens |-> 5, completion_tokens |-> 7],
            [prompt_tokens |-> 5, completion_tokens |-> -1] }

\* a parsed object with none of choices, model and id
InvalidChunk == Chunk(FALSE, "", "absent", <<>>, FALSE, <<>>, "", NoUsage)
\* a chunk that names the model and has no choice
ModelChunk == Chunk(FALSE, "m1", "empty", <<>>, FALSE, <<>>, "", NoUsage)

FinishChunks ==
    {FinishChunk(f, NoUsage) : f \in FinishReasons}
    \cup {FinishChunk("stop", u) : u \in Usages}
    \cup {[FinishChunk("stop", NoUsage) EXCEPT !.content = <<"a">>],
          [FinishChunk("tool_calls", NoUsage) EXCEPT
              !.hasToolCalls = TRUE,
              !.tool_calls = <<ToolCallDelta(0, <<>>, <<>>, ArgsFragment)>>]}

Chunks ==
    {TextChunk(t) : t \in TextDeltas}
    \cup {ToolChunk(l) : l \in ToolCallLists}
    \cup FinishChunks
    \cup {InvalidChunk, ModelChunk}

\* the text of the reasoning scenario
ReasoningText ==
    <<"b","e","f","o","r","e"," ">> \o OpenTag(TagThinking)
    \o <<"h","i","d","d","e","n">> \o CloseTag(TagThinking)
    \o <<" ","a","f","t","e","r">>

\* the value of lastChunk.chunk before any chunk
NoChunk == Chunk(FALSE, "none", "absent", <<>>, FALSE, <<>>, "", NoUsage)

(***************************************************************************)
(* The loop of convertOpenAIStreamToAnthropic.                             *)
(*   pc = "read"  : at `await reader.read()`                               *)
(*   pc = "lines" : in the for loop, linesLeft complete lines to go        *)
(*   pc = "done"  : after streamController.close()                         *)
(* delivered counts the lines the upstream has delivered; lastChunk holds  *)
(* the chunk handed to processOpenAIChunk last, the number of events       *)
(* enqueued before it (mark) and the StreamState before it (pre): history  *)
(* variables.                                                              *)
(***************************************************************************)
NoHist == [sent |-> <<>>, handed |-> <<>>]
NoCall == [fn |-> "none"]
NoTwin == [fed |-> <<>>]
NoForward == [pc |-> "none"]

\* the variables the line-level loop does not use
InitIdle ==
    /\ reader = "locked"
    /\ wire = <<>>
    /\ buffer = [text |-> <<>>, pending |-> <<>>]
    /\ hist = NoHist
    /\ input = NoCall
    /\ output = NoCall
    /\ twin = NoTwin
    /\ forward = NoForward

Init ==
    /\ state = InitState
    /\ controller = InitController
    /\ pc = "read"
    /\ linesLeft = 0
    /\ delivered = 0
    /\ rest = <<>>
    /\ pieces = 0
    /\ lastChunk = [chunk |-> NoChunk, mark |-> 0, pre |-> InitState]
    /\ InitIdle

\* reader.read() resolves with a value that completes n lines, the upstream
\* delivering at most max lines in all
ReadLinesUpTo(max) ==
    /\ pc = "read"
    /\ ~controller.isClosed
    /\ \E n \in 1..MaxLinesPerRead :
          /\ delivered + n <= max
          /\ linesLeft' = n
          /\ delivered' = delivered + n
    /\ pc' = "lines"
    /\ UNCHANGED <<state, controller, rest, pieces, lastChunk, reader, ioVars, callVars>>

ReadLines == ReadLinesUpTo(MaxChunks)

\* mutant: the reader is released on normal completion only
endOfStart_NoFinally(path, c, ok) ==
    [c      |-> IF path = "error" THEN error(c) ELSE close(c),
     reader |-> IF path = "error" THEN "locked"
                ELSE IF ok THEN "released" ELSE "release-failed",
     pc     |-> "done"]

\* the end of start(): streamController.close() after the loop, or the catch
\* block after a failed read, and then the finally block, where
\* reader.releaseLock() returns (ok) or throws into its own try/catch
endOfStart(path, c, ok) ==
    [c      |-> IF path = "error" THEN error(c) ELSE close(c),
     reader |-> IF ok THEN "released" ELSE "release-failed",
     pc     |-> "done"]

\* the loop ends by `path` and start() runs to its end; releases are the
\* outcomes of reader.releaseLock() the scenario allows (TRUE: it returns)
EndLoop(path, releases) ==
    /\ pc = "read"
    /\ \E ok \in releases :
          /\ controller' = endOfStart(path, controller, ok).c
          /\ reader' = endOfStart(path, controller, ok).reader
          /\ pc' = endOfStart(path, controller, ok).pc
    /\ UNCHANGED <<state, linesLeft, delivered, rest, pieces, lastChunk, ioVars, callVars>>

\* reader.read() resolves with done (or the wrapper is closed at the top of the
\* loop): the loop ends, streamController.close() runs and the reader is
\* released
ReadDone == EndLoop("done", {TRUE})

AfterLine ==
    /\ linesLeft' = linesLeft - 1
    /\ pc' = IF linesLeft = 1 THEN "read" ELSE "lines"

\* `if (streamController.closed || state.hasFinished) break`
LineBreak ==
    /\ pc = "lines"
    /\ controller.isClosed \/ state.hasFinished
    /\ linesLeft' = 0
    /\ pc' = "read"
    /\ UNCHANGED <<state, controller, delivered, rest, pieces, lastChunk, reader, ioVars, callVars>>

CanProcess == pc = "lines" /\ ~controller.isClosed /\ ~state.hasFinished

\* a line that does not start with "data: ", or the "[DONE]" sentinel
SkipLine ==
    /\ CanProcess
    /\ AfterLine
    /\ UNCHANGED <<state, controller, delivered, rest, pieces, lastChunk, reader, ioVars, callVars>>

\* mutant: the catch block errors the output stream
onParseError_Abort(w) == [w EXCEPT !.c = error(w.c)]

\* the catch block of the line's try: it logs
onParseError(w) == w

\* a data line whose payload JSON.parse rejects: logged and skipped
ParseErrorLine ==
    /\ CanProcess
    /\ state' = onParseError(World(state, controller)).st
    /\ controller' = onParseError(World(state, controller)).c
    /\ AfterLine
    /\ UNCHANGED <<delivered, rest, pieces, lastChunk, reader, ioVars, callVars>>

\* a data line that parses to `chunk`
ProcessLine(chunk) ==
    /\ CanProcess
    /\ state' = processOpenAIChunk(World(state, controller), chunk).st
    /\ controller' = processOpenAIChunk(World(state, controller), chunk).c
    /\ lastChunk' = [chunk |-> chunk, mark |-> Len(controller.events), pre |-> state]
    /\ AfterLine
    /\ UNCHANGED <<delivered, reader, ioVars, callVars>>

ChunkLine ==
    /\ \E chunk \in Chunks : ProcessLine(chunk)
    /\ UNCHANGED <<rest, pieces>>

Next ==
    \/ ReadLines
    \/ ReadDone
    \/ LineBreak
    \/ SkipLine
    \/ ParseErrorLine
    \/ ChunkLine

Spec == Init /\ [][Next]_vars

(***************************************************************************)
(* The reasoning scenario: the upstream streams ReasoningText as at most   *)
(* MaxPieces text deltas, cut anywhere, and then a finish chunk.  rest is  *)
(* the text not sent yet, pieces the number of deltas sent.                *)
(***************************************************************************)
InitSplit ==
    /\ state = InitState
    /\ controller = InitController
    /\ pc = "read"
    /\ linesLeft = 0
    /\ delivered = 0
    /\ rest = ReasoningText
    /\ pieces = 0
    /\ lastChunk = [chunk |-> NoChunk, mark |-> 0, pre |-> InitState]
    /\ InitIdle

SplitReadLines == ReadLinesUpTo(MaxPieces + 1)

\* the next text delta: a non-empty prefix of rest, all of it for the last one
SplitLine ==
    /\ rest # <<>>
    /\ pieces < MaxPieces
    /\ \E n \in 1..Len(rest) :
          /\ pieces + 1 < MaxPieces \/ n = Len(rest)
          /\ ProcessLine(TextChunk(SubSeq(rest, 1, n)))
          /\ rest' = SubSeq(rest, n + 1, Len(rest))
    /\ pieces' = pieces + 1

SplitFinishLine ==
    /\ rest = <<>>
    /\ ProcessLine(FinishChunk("stop", NoUsage))
    /\ UNCHANGED <<rest, pieces>>

NextSplit ==
    \/ SplitReadLines
    \/ ReadDone
    \/ LineBreak
    \/ SplitLine
    \/ SplitFinishLine

SpecSplit == InitSplit /\ [][NextSplit]_vars

(***************************************************************************)
(* The loop at the level of bytes: the upstream delivers the bytes of wire *)
(* in reads cut anywhere.  A read and the for loop over the lines it       *)
(* completes are one step.  buffer holds the loop's `buffer` (text) and    *)
(* the bytes the streaming TextDecoder keeps back (pending); hist.sent are *)
(* the bytes delivered so far and hist.handed the lines the for loop took  *)
(* past its break test: history variables.                                 *)
(*                                                                         *)
(* A JSON payload is written "{", one unit that stands for the members of  *)
(* the object, "}".  The text chunk carries a two-byte character.          *)
(***************************************************************************)
\* lines the upstream sends in the byte-level scenario
MaxWireLines == 3

Newline == "\n"
DataPrefix == <<"d", "a", "t", "a", ":", " ">>
DoneSentinel == <<"[", "D", "O", "N", "E", "]">>
\* UTF-8 of U+00E9, and the characters the decoder can produce from it
LeadByte == "C3"
ContByte == "A9"
CharE9 == "U+00E9"
Replacement == "U+FFFD"

\* TextDecoder.decode(bytes, {stream: true}): an incomplete sequence at the end
\* of the input is kept for the next call; a malformed one gives U+FFFD
RECURSIVE decodeFrom(_, _, _)
decodeFrom(pending, bytes, out) ==
    IF bytes = <<>> THEN [text |-> out, pending |-> pending]
    ELSE IF pending # <<>>
    THEN IF Head(bytes) = ContByte
         THEN decodeFrom(<<>>, Tail(bytes), Append(out, CharE9))
         ELSE decodeFrom(<<>>, bytes, Append(out, Replacement))
    ELSE IF Head(bytes) = LeadByte THEN decodeFrom(<<LeadByte>>, Tail(bytes), out)
    ELSE IF Head(bytes) = ContByte
    THEN decodeFrom(<<>>, Tail(bytes), Append(out, Replacement))
    ELSE decodeFrom(<<>>, Tail(bytes), Append(out, Head(bytes)))

\* mutant: decode(value) without {stream: true}: nothing is kept back
decode_NoStream(pending, bytes) ==
    [text |-> IF decodeFrom(<<>>, bytes, <<>>).pending = <<>>
              THEN decodeFrom(<<>>, bytes, <<>>).text
              ELSE Append(decodeFrom(<<>>, bytes, <<>>).text, Replacement),
     pending |-> <<>>]

decode(pending, bytes) == decodeFrom(pending, bytes, <<>>)

\* s.split("\n")
RECURSIVE SplitLines(_)
SplitLines(s) ==
    LET i == IndexOf(s, <<Newline>>, 1)
    IN IF i = 0 THEN <<s>>
       ELSE <<SubSeq(s, 1, i - 1)>> \o SplitLines(SubSeq(s, i + 1, Len(s)))

InitBuffer == [text |-> <<>>, pending |-> <<>>]

\* buffer += decoder.decode(value, { stream: true })
readChunk(buf, value) ==
    [text |-> buf.text \o decode(buf.pending, value).text,
     pending |-> decode(buf.pending, value).pending]

\* lines = buffer.split("\n"); buffer = lines.pop() || ""
completeLines(buf) ==
    SubSeq(SplitLines(buf.text), 1, Len(SplitLines(buf.text)) - 1)
keepPartial(buf) ==
    [buf EXCEPT !.text = SplitLines(buf.text)[Len(SplitLines(buf.text))]]

\* line.slice(6)
Payload(line) == SubSeq(line, Len(DataPrefix) + 1, Len(line))

\* the payloads JSON.parse accepts, and the chunk each parses to
TextPayload == <<"{", CharE9, "}">>
FinishPayload == <<"{", "f", "}">>
Parseable == {TextPayload, FinishPayload}

JSONparse(data) ==
    IF data = TextPayload THEN TextChunk(<<CharE9>>) ELSE FinishChunk("stop", NoUsage)

IsDataLine(line) == StartsWith(line, DataPrefix) /\ Payload(line) # DoneSentinel
IsChunkLine(line) == IsDataLine(line) /\ Payload(line) \in Parseable
IsGarbageLine(line) == IsDataLine(line) /\ Payload(line) \notin Parseable

\* mutant: the sentinel ends the conversion
lineStep_DoneFinishes(w, line) ==
    IF StartsWith(line, DataPrefix) /\ Payload(line) = DoneSentinel
    THEN [w EXCEPT !.st.hasFinished = TRUE]
    ELSE IF ~IsDataLine(line) THEN w
    ELSE IF Payload(line) \in Parseable
    THEN processOpenAIChunk(w, JSONparse(Payload(line)))
    ELSE onParseError(w)

\* the body of the for loop after its break test
lineStep(w, line) ==
    IF ~IsDataLine(line) THEN w
    ELSE IF Payload(line) \in Parseable
    THEN processOpenAIChunk(w, JSONparse(Payload(line)))
    ELSE onParseError(w)

\* `for (const line of lines)`; r.handed collects the lines the body took
RECURSIVE forLines(_, _)
forLines(r, lines) ==
    IF lines = <<>> \/ r.w.c.isClosed \/ r.w.st.hasFinished THEN r
    ELSE forLines([r EXCEPT !.w = lineStep(@, Head(lines)),
                            !.handed = Append(@, Head(lines))], Tail(lines))

\* the body of the while loop after the read: the for loop over the complete
\* lines of buf, the text after the last newline kept as the buffer
loopBody(w, handed, buf) ==
    forLines([w |-> w, handed |-> handed, buffer |-> keepPartial(buf)],
             completeLines(buf))

\* the lines of the scenario, as bytes
TextLine == DataPrefix \o <<"{", LeadByte, ContByte, "}">>
FinishLine == DataPrefix \o FinishPayload
GarbageLine == DataPrefix \o <<"{", "f">>
CommentLine == <<":", "k">>
LineSet == {TextLine, FinishLine, GarbageLine, CommentLine}

\* the byte sequences of exactly n lines, each ended by a newline
RECURSIVE WiresOf(_)
WiresOf(n) ==
    IF n = 0 THEN {<<>>}
    ELSE {l \o <<Newline>> \o w : l \in LineSet, w \in WiresOf(n - 1)}

\* at most MaxWireLines lines, the last one with or without its newline
Wires ==
    UNION {WiresOf(n) : n \in 0..MaxWireLines}
    \cup UNION {{w \o l : w \in WiresOf(n), l \in LineSet} : n \in 0..(MaxWireLines - 1)}

InitBytes ==
    /\ state = InitState
    /\ controller = InitController
    /\ pc = "read"
    /\ linesLeft = 0
    /\ delivered = 0
    /\ rest = <<>>
    /\ pieces = 0
    /\ lastChunk = [chunk |-> NoChunk, mark |-> 0, pre |-> InitState]
    /\ reader = "locked"
    /\ wire \in Wires
    /\ buffer = InitBuffer
    /\ hist = NoHist
    /\ input = NoCall
    /\ output = NoCall
    /\ twin = NoTwin
    /\ forward = NoForward

\* reader.read() resolves with the next n bytes, and the for loop runs over
\* the lines they complete
ByteRead ==
    /\ pc = "read"
    /\ ~controller.isClosed
    /\ \E n \in 1..Len(wire) :
          \E r \in {loopBody(World(state, controller), hist.handed,
                            readChunk(buffer, SubSeq(wire, 1, n)))} :
             /\ state' = r.w.st
             /\ controller' = r.w.c
             /\ hist' = [sent |-> hist.sent \o SubSeq(wire, 1, n), handed |-> r.handed]
             /\ buffer' = r.buffer
             /\ wire' = SubSeq(wire, n + 1, Len(wire))
    /\ UNCHANGED <<pc, linesLeft, delivered, rest, pieces, lastChunk, reader, callVars>>

\* reader.read() resolves with done once the upstream has sent everything
ByteDone ==
    /\ wire = <<>>
    /\ EndLoop("done", {TRUE})

NextBytes ==
    \/ ByteRead
    \/ ByteDone

SpecBytes == InitBytes /\ [][NextBytes]_vars

\* the same loop over upstreams that carry the "[DONE]" sentinel, at any place
DoneLine == DataPrefix \o DoneSentinel
DoneLineSet == {TextLine, FinishLine, DoneLine, CommentLine}

RECURSIVE WiresOver(_, _)
WiresOver(lines, n) ==
    IF n = 0 THEN {<<>>}
    ELSE {l \o <<Newline>> \o w : l \in lines, w \in WiresOver(lines, n - 1)}

DoneWires ==
    UNION {WiresOver(DoneLineSet, n) : n \in 0..MaxWireLines}
    \cup UNION {{w \o l : w \in WiresOver(DoneLineSet, n), l \in DoneLineSet} :
                   n \in 0..(MaxWireLines - 1)}

InitDone ==
    /\ state = InitState
    /\ controller = InitController
    /\ pc = "read"
    /\ linesLeft = 0
    /\ delivered = 0
    /\ rest = <<>>
    /\ pieces = 0
    /\ lastChunk = [chunk |-> NoChunk, mark |-> 0, pre |-> InitState]
    /\ reader = "locked"
    /\ wire \in DoneWires
    /\ buffer = InitBuffer
    /\ hist = NoHist
    /\ input = NoCall
    /\ output = NoCall
    /\ twin = NoTwin
    /\ forward = NoForward

SpecDone == InitDone /\ [][NextBytes]_vars

(***************************************************************************)
(* The loop with a downstream that may cancel, an upstream whose read may  *)
(* fail and a reader whose releaseLock() may throw.  cancel(reason) only   *)
(* logs: the underlying stream is closed by the runtime, after which its   *)
(* controller's enqueue throws the TypeError that enqueue() turns into     *)
(* isClosed.  The loop ends at `await reader.read()` (done or rejected) or *)
(* at the test at its top.                                                 *)
(***************************************************************************)
CancelChunks ==
    {TextChunk(<<"a">>),
     ToolChunk(<<ToolCallDelta(0, RealId, RealName, <<>>)>>),
     FinishChunk("stop", NoUsage)}

\* the consumer cancels the output stream
Cancel ==
    /\ controller.sink = "open"
    /\ controller' = [controller EXCEPT !.sink = "cancelled"]
    /\ UNCHANGED <<state, pc, linesLeft, delivered, rest, pieces, lastChunk, reader,
                   ioVars, callVars>>

\* reader.read() resolves with done
UpstreamDone ==
    /\ ~controller.isClosed
    /\ EndLoop("done", BOOLEAN)

\* reader.read() rejects
ReadError ==
    /\ ~controller.isClosed
    /\ EndLoop("error", BOOLEAN)

\* `if (streamController.closed) break` at the top of the while loop
DetectClosed ==
    /\ controller.isClosed
    /\ EndLoop("closed", BOOLEAN)

CancelChunkLine ==
    /\ \E chunk \in CancelChunks : ProcessLine(chunk)
    /\ UNCHANGED <<rest, pieces>>

\* the steps the converter takes by itself, with no read to wait for
ConverterStep ==
    \/ LineBreak
    \/ SkipLine
    \/ ParseErrorLine
    \/ CancelChunkLine
    \/ DetectClosed

NextCancel ==
    \/ ReadLines
    \/ UpstreamDone
    \/ ReadError
    \/ Cancel
    \/ LineBreak
    \/ SkipLine
    \/ ParseErrorLine
    \/ CancelChunkLine
    \/ DetectClosed

SpecCancel == Init /\ [][NextCancel]_vars

\* the converter does not stop by itself; the upstream and the consumer owe
\* nothing
FairSpecCancel == SpecCancel /\ WF_vars(ConverterStep)

(***************************************************************************)
(* transformClaudeToOpenAI.  Texts are sequences of characters, ids and    *)
(* roles are strings.  A content value is a string, null or an array       *)
(* (kind); a Map is the sequence of its entries in insertion order.        *)
(***************************************************************************)
\* messages of a request
MaxMessages == 3

StringContent(text) == [kind |-> "string", text |-> text, blocks |-> <<>>]
ArrayContent(blocks) == [kind |-> "array", text |-> <<>>, blocks |-> blocks]
NullContent == [kind |-> "null", text |-> <<>>, blocks |-> <<>>]

\* content blocks of the Messages API; id is a tool_use's id or a tool_result's
\* tool_use_id, "" when it is missing
Block(type, text, id, content, source) ==
    [type |-> type, text |-> text, id |-> id, name |-> "fn", input |-> <<>>,
     content |-> content, source |-> source]
NoSource == [type |-> "none", media_type |-> <<>>, data |-> <<>>, url |-> <<>>]
TextBlock(text) == Block("text", text, "", NullContent, NoSource)
ImageBlock(source) == Block("image", <<>>, "", NullContent, source)
ToolUseBlock(id) == Block("tool_use", <<>>, id, NullContent, NoSource)
ToolResultBlock(id, content) == Block("tool_result", <<>>, id, content, NoSource)

Message(role, content) == [role |-> role, content |-> content]

\* messages of the chat-completions API
OpenAIMessage(role, content, tool_calls, tool_call_id) ==
    [role |-> role, content |-> content, tool_calls |-> tool_calls,
     tool_call_id |-> tool_call_id]

\* a.join(sep) for an array of texts
RECURSIVE Join(_, _)
Join(texts, sep) ==
    IF texts = <<>> THEN <<>>
    ELSE IF Len(texts) = 1 THEN texts[1]
    ELSE texts[1] \o sep \o Join(Tail(texts), sep)

\* JSON.stringify of an array of text blocks, and of a tool input
Quoted(text) == <<"\"">> \o text \o <<"\"">>
JSONstringifyBlocks(blocks) ==
    <<"[">> \o Join([i \in 1..Len(blocks) |-> Quoted(blocks[i].text)], <<",">>) \o <<"]">>
JSONstringifyInput(members) == <<"{">> \o members \o <<"}">>

\* mutant: a system message whatever the request's system value
systemMessages_Always(system) ==
    <<OpenAIMessage("system", StringContent(system.text), <<>>, "")>>

\* mutant: the parts of an array-form system prompt joined without a separator
systemMessages_Unspaced(system) ==
    IF system.kind = "string" /\ system.text # <<>>
    THEN <<OpenAIMessage("system", StringContent(system.text), <<>>, "")>>
    ELSE IF system.kind = "array"
    THEN <<OpenAIMessage("system",
               StringContent(Join([i \in 1..Len(system.blocks) |-> system.blocks[i].text],
                                  <<>>)), <<>>, "")>>
    ELSE <<>>

\* "Add system message if present"; system is absent, a string or an array of
\* text parts
systemMessages(system) ==
    IF system.kind = "string" /\ system.text # <<>>
    THEN <<OpenAIMessage("system", StringContent(system.text), <<>>, "")>>
    ELSE IF system.kind = "array"
    THEN <<OpenAIMessage("system",
               StringContent(Join([i \in 1..Len(system.blocks) |-> system.blocks[i].text],
                                  <<" ">>)), <<>>, "")>>
    ELSE <<>>

\* Map operations on a sequence of entries [key, value]
MapHas(map, key) == \E i \in 1..Len(map) : map[i].key = key
MapGet(map, key) == map[CHOOSE i \in 1..Len(map) : map[i].key = key].value
MapDelete(map, key) == SelectSeq(map, LAMBDA e : e.key # key)
MapPush(map, key, item) ==
    IF MapHas(map, key)
    THEN [i \in 1..Len(map) |->
             IF map[i].key = key THEN [map[i] EXCEPT !.value = Append(@, item)] ELSE map[i]]
    ELSE Append(map, [key |-> key, value |-> <<item>>])

IsToolResult(c) == c.type = "tool_result" /\ c.id # ""
IsToolUse(c) == c.type = "tool_use" /\ c.id # ""
IsTextPart(c) == c.type = "text" /\ c.text # <<>>
IsImagePart(c) == c.type = "image" /\ c.source.type # "none"

\* the tool-role message of a tool_result block
toolResponse(tool) ==
    OpenAIMessage("tool",
        IF tool.content.kind = "string" THEN tool.content
        ELSE StringContent(JSONstringifyBlocks(tool.content.blocks)),
        <<>>, tool.id)

\* "First pass: collect tool responses", over the blocks of one message and
\* over the messages
RECURSIVE queueToolParts(_, _)
queueToolParts(queue, toolParts) ==
    IF toolParts = <<>> THEN queue
    ELSE queueToolParts(MapPush(queue, Head(toolParts).id, toolResponse(Head(toolParts))),
                        Tail(toolParts))

RECURSIVE collectToolResponses(_, _)
collectToolResponses(queue, messages) ==
    IF messages = <<>> THEN queue
    ELSE IF Head(messages).content.kind = "array"
    THEN collectToolResponses(
             queueToolParts(queue, SelectSeq(Head(messages).content.blocks, IsToolResult)),
             Tail(messages))
    ELSE collectToolResponses(queue, Tail(messages))

\* the walk's state: the output list and the pending tool responses
Walk(out, queue) == [out |-> out, queue |-> queue]
push(t, message) == [t EXCEPT !.out = Append(@, message)]
pushAll(t, messages) == [t EXCEPT !.out = @ \o messages]

\* "Handle user messages with complex content"
userPart(part) ==
    IF part.type = "image"
    THEN [type |-> "image_url", text |-> <<>>,
          url |-> IF part.source.type = "base64"
                  THEN <<"d", "a", "t", "a", ":">> \o part.source.media_type
                       \o <<";", "b", "a", "s", "e", "6", "4", ",">> \o part.source.data
                  ELSE part.source.url]
    ELSE [type |-> "text", text |-> part.text, url |-> <<>>]

userContent(parts) ==
    IF Len(parts) = 1 /\ parts[1].type = "text"
    THEN StringContent(parts[1].text)
    ELSE ArrayContent([i \in 1..Len(parts) |-> userPart(parts[i])])

userMessage(t, msg) ==
    IF SelectSeq(msg.content.blocks, LAMBDA c : IsTextPart(c) \/ IsImagePart(c)) # <<>>
    THEN push(t, OpenAIMessage("user",
                 userContent(SelectSeq(msg.content.blocks,
                                       LAMBDA c : IsTextPart(c) \/ IsImagePart(c))),
                 <<>>, ""))
    ELSE t

\* "Handle assistant messages with tool calls"
assistantText(textParts) ==
    IF textParts # <<>>
    THEN StringContent(Join([i \in 1..Len(textParts) |-> textParts[i].text], <<"\n">>))
    ELSE NullContent

toolCallOf(tool) ==
    [id |-> tool.id, type |-> "function", name |-> tool.name,
     arguments |-> JSONstringifyInput(tool.input)]

assistantOf(msg) ==
    OpenAIMessage("assistant",
        assistantText(SelectSeq(msg.content.blocks, IsTextPart)),
        [i \in 1..Len(SelectSeq(msg.content.blocks, IsToolUse)) |->
            toolCallOf(SelectSeq(msg.content.blocks, IsToolUse)[i])],
        "")

\* mutant: the flushed responses stay in the pending index
dropFlushed_Keep(queue, id) == queue

\* toolResponsesQueue.delete(toolCall.id)
dropFlushed(queue, id) == MapDelete(queue, id)

\* "Add corresponding tool responses"
flushOne(t, id) ==
    IF MapHas(t.queue, id)
    THEN [pushAll(t, MapGet(t.queue, id)) EXCEPT !.queue = dropFlushed(@, id)]
    ELSE t

\* mutant: nothing is flushed after the assistant message
flushResponses_Never(t, toolCallParts) == t

RECURSIVE flushResponses(_, _)
flushResponses(t, toolCallParts) ==
    IF toolCallParts = <<>> THEN t
    ELSE flushResponses(flushOne(t, Head(toolCallParts).id), Tail(toolCallParts))

assistantMessage(t, msg) ==
    flushResponses(push(t, assistantOf(msg)), SelectSeq(msg.content.blocks, IsToolUse))

\* one round of "Transform messages"; a null message has kind "null"
transformMessage(t, msg) ==
    IF msg.content.kind = "null" THEN t
    ELSE IF msg.content.kind = "string"
    THEN push(t, OpenAIMessage(msg.role, msg.content, <<>>, ""))
    ELSE IF msg.role = "user" THEN userMessage(t, msg)
    ELSE IF msg.role = "assistant" THEN assistantMessage(t, msg)
    ELSE t

RECURSIVE transformMessages(_, _)
transformMessages(t, messages) ==
    IF messages = <<>> THEN t
    ELSE transformMessages(transformMessage(t, Head(messages)), Tail(messages))

\* "Add any remaining tool responses"
RECURSIVE remainingResponses(_)
remainingResponses(queue) ==
    IF queue = <<>> THEN <<>>
    ELSE Head(queue).value \o remainingResponses(Tail(queue))

addRemaining(t) == pushAll(t, remainingResponses(t.queue))

\* the messages of the request transformClaudeToOpenAI returns
transformClaudeToOpenAI(claudeRequest) ==
    addRemaining(
        transformMessages(
            Walk(systemMessages(claudeRequest.system),
                 collectToolResponses(<<>>, claudeRequest.messages)),
            claudeRequest.messages)).out

\* the requests of the scenario
AbsentSystem == [kind |-> "absent", text |-> <<>>, blocks |-> <<>>]
Systems ==
    {AbsentSystem,
     StringContent(<<>>),
     StringContent(<<"s">>),
     ArrayContent(<<>>),
     ArrayContent(<<TextBlock(<<"a">>), TextBlock(<<"b">>)>>)}

UserHi == Message("user", StringContent(<<"h", "i">>))
AssistantOk == Message("assistant", StringContent(<<"o", "k">>))
CallsAB ==
    Message("assistant",
            ArrayContent(<<TextBlock(<<"t">>), ToolUseBlock("A"), ToolUseBlock("B")>>))
CallsB == Message("assistant", ArrayContent(<<ToolUseBlock("B")>>))
ResultA == Message("user", ArrayContent(<<ToolResultBlock("A", StringContent(<<"r">>))>>))
ResultsBA ==
    Message("user",
            ArrayContent(<<ToolResultBlock("B", ArrayContent(<<TextBlock(<<"b">>)>>)),
                           TextBlock(<<"q">>),
                           ToolResultBlock("A", StringContent(<<"s">>))>>))
ResultC ==
    Message("user",
            ArrayContent(<<ToolResultBlock("C", StringContent(<<"x">>)),
                           ToolResultBlock("", StringContent(<<"y">>))>>))
MessageSet == {UserHi, AssistantOk, CallsAB, CallsB, ResultA, ResultsBA, ResultC}

RECURSIVE SeqsUpTo(_, _)
SeqsUpTo(S, n) ==
    IF n = 0 THEN {<<>>}
    ELSE SeqsUpTo(S, n - 1) \cup {Append(q, x) : q \in SeqsUpTo(S, n - 1), x \in S}

ClaudeRequests ==
    {[fn |-> "transformClaudeToOpenAI", system |-> s, messages |-> ms] :
        s \in Systems, ms \in SeqsUpTo(MessageSet, MaxMessages)}

\* the variables the transcoders do not use
InitStreamOnly ==
    /\ state = InitState
    /\ controller = InitController
    /\ pc = "read"
    /\ linesLeft = 0
    /\ delivered = 0
    /\ rest = <<>>
    /\ pieces = 0
    /\ lastChunk = [chunk |-> NoChunk, mark |-> 0, pre |-> InitState]
    /\ reader = "locked"
    /\ wire = <<>>
    /\ buffer = InitBuffer
    /\ hist = NoHist

InitNoStream ==
    /\ InitStreamOnly
    /\ twin = NoTwin
    /\ forward = NoForward

streamVarsOnly == <<state, controller, pc, linesLeft, delivered, rest, pieces, lastChunk,
                    reader, ioVars>>
streamVars == <<streamVarsOnly, sideVars>>

InitRequest ==
    /\ InitNoStream
    /\ input \in ClaudeRequests
    /\ output = NoCall

\* one call of transformClaudeToOpenAI
CallTransformClaudeToOpenAI ==
    /\ input.fn = "transformClaudeToOpenAI"
    /\ output = NoCall
    /\ output' = [fn |-> input.fn, messages |-> transformClaudeToOpenAI(input)]
    /\ UNCHANGED <<input, streamVars>>

NextRequest == CallTransformClaudeToOpenAI

SpecRequest == InitRequest /\ [][NextRequest]_vars

(***************************************************************************)
(* transformOpenAIToClaude.  A tool call's arguments are absent, a string  *)
(* (a sequence of characters) or an object; message.content is null or a   *)
(* string; annotations are absent or an array.                             *)
(***************************************************************************)
\* tool calls of the first choice
MaxToolCalls == 2
\* choices after the first
MaxMoreChoices == 2

\* JSON.parse on an argument string: the texts it accepts are "{}" and an
\* object with one member, written "{", "k", "}"; every other text throws
ObjectTexts == {<<"{", "}">>, <<"{", "k", "}">>}
ParsedObject(text) == [kind |-> "object", members |-> SubSeq(text, 2, Len(text) - 1),
                       text |-> <<>>]
EmptyObject == [kind |-> "object", members |-> <<>>, text |-> <<>>]
\* the object { text: raw }
TextObject(raw) == [kind |-> "text", members |-> <<>>, text |-> raw]

\* mutant: the fallback is the empty object
fallbackInput_Empty(arguments) == EmptyObject

\* the catch block: parsedInput = { text: toolCall.function.arguments || "" }
fallbackInput(arguments) ==
    TextObject(IF arguments.kind = "string" THEN arguments.text ELSE <<>>)

\* const argumentsStr = toolCall.function.arguments || "{}"
argumentsStr(arguments) ==
    IF arguments.kind = "absent" \/ (arguments.kind = "string" /\ arguments.text = <<>>)
    THEN [kind |-> "string", text |-> <<"{", "}">>, members |-> <<>>]
    ELSE arguments

\* the try block of a tool call
parsedInputOf(arguments) ==
    IF argumentsStr(arguments).kind = "object"
    THEN [kind |-> "object", members |-> arguments.members, text |-> <<>>]
    ELSE IF argumentsStr(arguments).text \in ObjectTexts
    THEN ParsedObject(argumentsStr(arguments).text)
    ELSE fallbackInput(arguments)

\* content blocks of the Messages API response
ContentBlock(type, text, id, name, inputValue, results) ==
    [type |-> type, text |-> text, id |-> id, name |-> name, input |-> inputValue,
     results |-> results]

toolUseOf(toolCall) ==
    ContentBlock("tool_use", <<>>, toolCall.id, toolCall.name,
                 parsedInputOf(toolCall.arguments), <<>>)

\* "Handle text content"
textBlocks(message) ==
    IF message.content.kind = "string" /\ message.content.text # <<>>
    THEN <<ContentBlock("text", message.content.text, 0, "", EmptyObject, <<>>)>>
    ELSE <<>>

\* "Handle tool calls"
toolUseBlocks(message) ==
    [i \in 1..Len(message.tool_calls) |-> toolUseOf(message.tool_calls[i])]

\* "Handle annotations (web search results)"
ServerToolId == <<"s","r","v","t","o","o","l","u","_">> \o NowDigits
annotationBlocks(message) ==
    IF message.annotations.has
    THEN <<ContentBlock("server_tool_use", <<>>, ServerToolId, "web_search",
                        TextObject(<<>>), <<>>),
           ContentBlock("web_search_tool_result", <<>>, ServerToolId, "", EmptyObject,
                        message.annotations.items)>>
    ELSE <<>>

\* mutant: the placeholder block carries a blank
contentOrPlaceholder_Blank(content) ==
    IF content # <<>> THEN content
    ELSE <<ContentBlock("text", <<" ">>, 0, "", EmptyObject, <<>>)>>

\* mutant: an empty content array is returned as it is
contentOrPlaceholder_None(content) == content

\* content.length > 0 ? content : [{ type: "text", text: "" }]
contentOrPlaceholder(content) ==
    IF content # <<>> THEN content
    ELSE <<ContentBlock("text", <<>>, 0, "", EmptyObject, <<>>)>>

\* mutant: the last choice is taken
firstChoice_Last(choices) == choices[Len(choices)]

\* const choice = choices[0]
firstChoice(choices) == choices[1]

responseUsage(usage) ==
    IF usage.has
    THEN [input_tokens |-> usage.prompt_tokens, output_tokens |-> usage.completion_tokens]
    ELSE [input_tokens |-> 0, output_tokens |-> 0]

MessagePrefix == <<"m","s","g","_">>

\* the returned message, for a response with a choice
claudeMessage(openAIResponse, choice) ==
    [id |-> IF openAIResponse.id # <<>> THEN openAIResponse.id
            ELSE MessagePrefix \o NowDigits,
     type |-> "message",
     role |-> "assistant",
     content |-> contentOrPlaceholder(textBlocks(choice.message)
                                      \o toolUseBlocks(choice.message)
                                      \o annotationBlocks(choice.message)),
     model |-> openAIResponse.model,
     stop_reason |-> ResponseStopReason(choice.finish_reason),
     usage |-> responseUsage(openAIResponse.usage)]

NoMessage == [type |-> "none"]

transformOpenAIToClaude(openAIResponse) ==
    IF ~openAIResponse.hasChoices \/ openAIResponse.choices = <<>>
    THEN [threw |-> TRUE, message |-> NoMessage]
    ELSE [threw |-> FALSE,
          message |-> claudeMessage(openAIResponse, firstChoice(openAIResponse.choices))]

\* the responses of the scenario
AbsentArguments == [kind |-> "absent", text |-> <<>>, members |-> <<>>]
StringArguments(text) == [kind |-> "string", text |-> text, members |-> <<>>]
ArgumentValues ==
    {AbsentArguments,
     StringArguments(<<>>),
     StringArguments(<<"{", "}">>),
     StringArguments(<<"{", "k", "}">>),
     StringArguments(<<"{", "k">>)}

\* the tool calls have the ids 1, 2, ... in their order
ToolCallsOf(arguments) ==
    [i \in 1..Len(arguments) |-> [id |-> i, name |-> "fn", arguments |-> arguments[i]]]
ResponseToolCalls == {ToolCallsOf(a) : a \in SeqsUpTo(ArgumentValues, MaxToolCalls)}

NoAnnotations == [has |-> FALSE, items |-> <<>>]
Annotations == {NoAnnotations, [has |-> TRUE, items |-> <<[url |-> "u", title |-> "t"]>>]}

ResponseContents == {NullContent, StringContent(<<>>), StringContent(<<"h", "i">>)}

Choice(content, toolCalls, annotations, finishReason) ==
    [message |-> [content |-> content, tool_calls |-> toolCalls,
                  annotations |-> annotations],
     finish_reason |-> finishReason]

FirstChoices ==
    {Choice(c, t, a, f) : c \in ResponseContents, t \in ResponseToolCalls,
                          a \in Annotations, f \in {"stop", "length", "tool_calls"}}
MoreChoices ==
    {Choice(StringContent(<<"n", "o">>), <<>>, NoAnnotations, "length"),
     Choice(NullContent, ToolCallsOf(<<StringArguments(<<"{", "}">>)>>), NoAnnotations,
            "tool_calls")}

ResponseUsages ==
    {[has |-> FALSE, prompt_tokens |-> 0, completion_tokens |-> 0],
     [has |-> TRUE, prompt_tokens |-> 5, completion_tokens |-> 7]}

OpenAIResponse(hasChoices, choices, usage) ==
    [fn |-> "transformOpenAIToClaude", id |-> <<>>, model |-> "m1",
     hasChoices |-> hasChoices, choices |-> choices, usage |-> usage]

OpenAIResponses ==
    {OpenAIResponse(FALSE, <<>>, u) : u \in ResponseUsages}
    \cup {OpenAIResponse(TRUE, <<>>, u) : u \in ResponseUsages}
    \cup {OpenAIResponse(TRUE, <<c>> \o more, u) :
             c \in FirstChoices, more \in SeqsUpTo(MoreChoices, MaxMoreChoices),
             u \in ResponseUsages}

InitResponse ==
    /\ InitNoStream
    /\ input \in OpenAIResponses
    /\ output = NoCall

\* one call of transformOpenAIToClaude
CallTransformOpenAIToClaude ==
    /\ input.fn = "transformOpenAIToClaude"
    /\ output = NoCall
    /\ output' = [fn |-> input.fn,
                  threw |-> transformOpenAIToClaude(input).threw,
                  message |-> transformOpenAIToClaude(input).message]
    /\ UNCHANGED <<input, streamVars>>

NextResponse == CallTransformOpenAIToClaude

SpecResponse == InitResponse /\ [][NextResponse]_vars

(***************************************************************************)
(* Two conversions at once.  Each call of convertOpenAIStreamToAnthropic   *)
(* builds its ReadableStream, and start() of that stream builds its own    *)
(* TypeSafeStreamController and its own StreamState (lines 104-105); the   *)
(* module declares nothing but classes and functions, and the regular      *)
(* expressions of extractReasoningFromContent are built on every call.     *)
(* JavaScript runs one handler at a time, so the two conversions           *)
(* interleave between reads: a step is one line of one of them.            *)
(***************************************************************************)
Converters == 1..2

\* the StreamState object conversion i works on
instanceOf_Shared(i) == 1

instanceOf(i) == i

TwinChunks == CancelChunks \cup {TextChunk(ReasoningText)}

InitTwin ==
    /\ InitStreamOnly
    /\ input = NoCall
    /\ output = NoCall
    /\ forward = NoForward
    /\ twin = [st |-> [i \in Converters |-> InitState],
               c |-> [i \in Converters |-> InitController],
               fed |-> [i \in Converters |-> <<>>],
               last |-> 0,
               switches |-> 0]

\* conversion i reads one line carrying chunk and processes it
TwinStep(i, chunk) ==
    \E r \in {processOpenAIChunk(World(twin.st[instanceOf(i)], twin.c[i]), chunk)} :
        twin' = [twin EXCEPT !.st[instanceOf(i)] = r.st,
                             !.c[i] = r.c,
                             !.fed[i] = Append(@, chunk),
                             !.last = i,
                             !.switches = IF twin.last \in {0, i} \/ @ = MaxTwinLines
                                          THEN @ ELSE @ + 1]

TwinLine ==
    /\ \E i \in Converters :
          /\ ~twin.c[i].isClosed
          /\ Len(twin.fed[i]) < MaxTwinLines
          /\ \E chunk \in TwinChunks : TwinStep(i, chunk)
    /\ UNCHANGED <<streamVarsOnly, input, output, forward>>

NextTwin == TwinLine

SpecTwin == InitTwin /\ [][NextTwin]_vars

(***************************************************************************)
(* forwardToOpenAI (part_006, lines 357-462).  The whole body is inside    *)
(* one try; the catch answers reply.code(500).send(envelope).  The steps   *)
(* are the function's await points.  reply is Fastify's: writeHead() and   *)
(* end() act on the raw response, and send() on a reply whose raw response *)
(* has ended logs FST_ERR_REP_ALREADY_SENT and sends nothing.              *)
(***************************************************************************)
ConfigStates == {"absent", "disabled", "enabled"}

\* what the upstream answers to a non-streaming call
ForwardResults == {r \in OpenAIResponses : Len(r.choices) <= 1}

NoPayload == [type |-> "none"]
ErrorEnvelope(message) ==
    [type |-> "error", error |-> [type |-> "api_error", message |-> message]]
MessagePayload(message) == [type |-> "message", message |-> message]

\* the response as the caller sees it
InitReply ==
    [statusCode |-> 0, headersSent |-> FALSE, ended |-> FALSE, written |-> 0,
     payload |-> NoPayload, code |-> 200]

\* reply.code(statusCode)
replyCode(reply, statusCode) == [reply EXCEPT !.code = statusCode]

\* reply.send(payload)
replySend(reply, payload) ==
    IF reply.ended THEN reply
    ELSE [reply EXCEPT !.statusCode = reply.code, !.headersSent = TRUE,
                       !.ended = TRUE, !.payload = payload]

\* reply.raw.writeHead(200, ...), reply.raw.write(value), reply.raw.end()
rawWriteHead(reply) == [reply EXCEPT !.statusCode = 200, !.headersSent = TRUE]
rawWrite(reply) == [reply EXCEPT !.written = @ + 1]
rawEnd(reply) == [reply EXCEPT !.ended = TRUE]

\* the catch block: the error is answered with the envelope
catchError(f, failure) ==
    [f EXCEPT !.pc = "done",
              !.failure = failure,
              !.reply = replySend(replyCode(f.reply, 500), ErrorEnvelope(failure))]

InitForward ==
    /\ InitStreamOnly
    /\ input = NoCall
    /\ output = NoCall
    /\ twin = NoTwin
    /\ forward \in {[pc |-> "start", config |-> c, stream |-> s, reply |-> InitReply,
                      failure |-> "none", escaped |-> FALSE] :
                         c \in ConfigStates, s \in BOOLEAN}

ForwardStep(f) ==
    /\ forward' = f
    /\ UNCHANGED <<streamVarsOnly, input, output, twin>>

\* lines 359-362: the configuration test
CheckConfig ==
    /\ forward.pc = "start"
    /\ ForwardStep(IF forward.config # "enabled"
                   THEN catchError(forward, "AutoRouter not configured or disabled")
                   ELSE [forward EXCEPT !.pc = "create"])

\* openai.chat.completions.create(openAIRequest) rejects, or times out
CreateRejects ==
    /\ forward.pc = "create"
    /\ \E failure \in {"upstream rejected", "upstream timed out"} :
          ForwardStep(catchError(forward, failure))

\* lines 432-446: the call resolves with a completion, which is transformed and sent
sendResult(f, result) ==
    IF transformOpenAIToClaude(result).threw
    THEN catchError(f, "transcoder threw")
    ELSE [f EXCEPT !.pc = "done",
                   !.reply = replySend(f.reply,
                                 MessagePayload(transformOpenAIToClaude(result).message))]

CreateResolves ==
    /\ forward.pc = "create"
    /\ ~forward.stream
    /\ \E result \in ForwardResults : ForwardStep(sendResult(forward, result))

\* lines 391-419: the call resolves with a stream, which is wrapped and converted,
\* and the head of the answer is written
CreateStream ==
    /\ forward.pc = "create"
    /\ forward.stream
    /\ ForwardStep([forward EXCEPT !.pc = "reading", !.reply = rawWriteHead(@)])

\* lines 421-431: the finally block of the read loop
endOfRead(f) == [f EXCEPT !.reply = rawEnd(@), !.pc = "done"]

\* reader.read() resolves with a value, which is written
ForwardReadValue ==
    /\ forward.pc = "reading"
    /\ forward.reply.written < MaxWrites
    /\ ForwardStep([forward EXCEPT !.reply = rawWrite(@)])

\* reader.read() resolves with done
ForwardReadDone ==
    /\ forward.pc = "reading"
    /\ ForwardStep(endOfRead(forward))

\* reader.read() rejects: the converted stream is in error, which is what the
\* converter's catch (streamConverter.ts, 143-144) makes of a failed upstream read
ForwardReadRejects ==
    /\ forward.pc = "reading"
    /\ ForwardStep(catchError(endOfRead(forward), "stream failed"))

NextForward ==
    \/ CheckConfig
    \/ CreateRejects
    \/ CreateResolves
    \/ CreateStream
    \/ ForwardReadValue
    \/ ForwardReadDone
    \/ ForwardReadRejects

SpecForward == InitForward /\ [][NextForward]_vars

(***************************************************************************)
(* Vocabulary of the properties.                                           *)
(***************************************************************************)
E == controller.events

\* pat occurs in s
Includes(s, pat) == IndexOf(s, pat, 1) # 0

IsBlockEvent(e) ==
    e.type \in {"content_block_start", "content_block_delta", "content_block_stop"}

Positions(type) == {i \in 1..Len(E) : E[i].type = type}

IsToolStart(e) == e.type = "content_block_start" /\ e.kind = "tool_use"

\* the last chunk was handed to processOpenAIChunk with a finish reason
LastFinished == lastChunk.chunk.choices = "one" /\ lastChunk.chunk.finish_reason # ""

\* the tool-call deltas processOpenAIChunk read from the last chunk
LastToolCalls ==
    IF lastChunk.chunk.choices = "one" /\ lastChunk.chunk.hasToolCalls
    THEN lastChunk.chunk.tool_calls
    ELSE <<>>

\* the indices of the blocks open after the first n events: started, and not
\* stopped since
OpenBlocks(n) ==
    {E[i].index : i \in {i \in 1..n : /\ E[i].type = "content_block_start"
                                      /\ \A j \in (i + 1)..n :
                                            ~(E[j].type = "content_block_stop"
                                              /\ E[j].index = E[i].index)}}

\* the events the finished state forbids
ListedEvents(evs) == SelectSeq(evs, LAMBDA e : e.type # "error")

Finished == state.hasFinished \/ Positions("message_stop") # {}

\* the fixed table of the two transcoders
FinishReasonTable(f) ==
    CASE f = "stop" -> "end_turn"
      [] f = "length" -> "max_tokens"
      [] f = "tool_calls" -> "tool_use"
      [] f = "content_filter" -> "stop_sequence"
      [] OTHER -> "end_turn"

(***************************************************************************)
(* C1: when the conversion has ended, the first event emitted is           *)
(* message_start, the last is message_stop, and every content_block event  *)
(* lies between them -- for every upstream stream, the empty one and the   *)
(* one without a finish reason included.                                   *)
(***************************************************************************)
C1_StartFirstStopLast ==
    pc = "done" =>
       /\ E # <<>>
       /\ E[1].type = "message_start"
       /\ E[Len(E)].type = "message_stop"
       /\ \A i \in 1..Len(E) :
             IsBlockEvent(E[i]) =>
                /\ \E j \in 1..(i - 1) : E[j].type = "message_start"
                /\ \A j \in 1..(i - 1) : E[j].type # "message_stop"

(***************************************************************************)
(* C2: message_start is emitted at most once, and every content_block      *)
(* event is emitted strictly after it.                                     *)
(***************************************************************************)
C2_StartOnceBeforeBlocks ==
    /\ Cardinality(Positions("message_start")) <= 1
    /\ \A i \in 1..Len(E) :
          IsBlockEvent(E[i]) => \E j \in 1..(i - 1) : E[j].type = "message_start"

\* a second chunk has been processed after the one that sent message_start,
\* and content-block events exist
C2_Witness ==
    /\ state.totalChunks >= 2
    /\ lastChunk.pre.hasStarted
    /\ \E i \in 1..Len(E) : IsBlockEvent(E[i])
    /\ Cardinality(Positions("message_start")) = 1

(***************************************************************************)
(* C3: message_stop is emitted at most once, and no content_block event    *)
(* (content_block_stop in particular) is emitted after it.                 *)
(***************************************************************************)
C3_StopOnceAfterBlocks ==
    /\ Cardinality(Positions("message_stop")) <= 1
    /\ \A i \in Positions("message_stop") :
          \A j \in (i + 1)..Len(E) : ~IsBlockEvent(E[j])

\* the finish closed an open block, and more lines arrived afterwards
C3_Witness ==
    /\ Positions("message_stop") # {}
    /\ Positions("content_block_stop") # {}
    /\ pc = "lines"
    /\ delivered >= 3

(***************************************************************************)
(* C4: however the text "before <thinking>hidden</thinking> after" is cut  *)
(* into text deltas, the output has a thinking block whose thinking_delta  *)
(* is "hidden", after a text_delta carrying "before" and before a          *)
(* text_delta carrying "after", and no text_delta carries the tag text.    *)
(***************************************************************************)
C4_ThinkingBetweenTexts ==
    (pc = "done" /\ rest = <<>> /\ state.contentChunks = pieces /\ state.hasFinished) =>
       /\ \E j \in 2..Len(E) :
             /\ E[j].kind = "thinking_delta"
             /\ E[j].text = <<"h","i","d","d","e","n">>
             /\ E[j - 1].type = "content_block_start" /\ E[j - 1].kind = "thinking"
             /\ \E i \in 1..(j - 1) :
                   E[i].kind = "text_delta" /\ Includes(E[i].text, <<"b","e","f","o","r","e">>)
             /\ \E k \in (j + 1)..Len(E) :
                   E[k].kind = "text_delta" /\ Includes(E[k].text, <<"a","f","t","e","r">>)
       /\ \A i \in 1..Len(E) :
             E[i].kind = "text_delta" =>
                /\ ~Includes(E[i].text, OpenTag(TagThinking))
                /\ ~Includes(E[i].text, CloseTag(TagThinking))

(***************************************************************************)
(* C5: exactly one content_block_start is emitted per distinct source      *)
(* tool-call index; a first delta for an index without id and name opens   *)
(* the block with the placeholder id and name; a later delta for that      *)
(* index that supplies id and function.name opens no block and overwrites  *)
(* the stored id and name.                                                 *)
(***************************************************************************)
\* the source indices the converter knows or has opened a block for
KnownIndices ==
    DOMAIN state.toolCalls \cup {E[i].src : i \in {i \in 1..Len(E) : IsToolStart(E[i])}}

FirstDeltaFor(idx) ==
    LastToolCalls[Min({i \in 1..Len(LastToolCalls) : toolCallIndexOf(LastToolCalls[i]) = idx})]

LastIndices == {toolCallIndexOf(LastToolCalls[i]) : i \in 1..Len(LastToolCalls)}

ToolStartsFor(idx, from) ==
    {i \in from..Len(E) : IsToolStart(E[i]) /\ E[i].src = idx}

C5_OneStartPerToolIndex ==
    /\ LastIndices \subseteq DOMAIN state.toolCalls
    /\ \A idx \in KnownIndices :
          Cardinality(ToolStartsFor(idx, 1)) = IF idx \in DOMAIN state.toolCalls THEN 1 ELSE 0
    /\ \A idx \in LastIndices :
          /\ ( /\ idx \notin DOMAIN lastChunk.pre.toolCalls
               /\ FirstDeltaFor(idx).id = <<>>
               /\ FirstDeltaFor(idx).name = <<>> )
             => \E i \in ToolStartsFor(idx, lastChunk.mark + 1) :
                   /\ E[i].id = PlaceholderId(idx)
                   /\ E[i].name = PlaceholderName(idx)
          /\ ( /\ idx \in DOMAIN lastChunk.pre.toolCalls
               /\ FirstDeltaFor(idx).id # <<>>
               /\ FirstDeltaFor(idx).name # <<>>
               /\ lastChunk.pre.toolCalls[idx].id = PlaceholderId(idx)
               /\ lastChunk.pre.toolCalls[idx].name = PlaceholderName(idx) )
             => /\ ToolStartsFor(idx, lastChunk.mark + 1) = {}
                /\ state.toolCalls[idx].id = FirstDeltaFor(idx).id
                /\ state.toolCalls[idx].name = FirstDeltaFor(idx).name

\* index 0 was opened under its placeholder and a later delta renamed it
C5_Witness ==
    /\ 0 \in DOMAIN state.toolCalls
    /\ state.toolCalls[0].id = RealId
    /\ state.toolCalls[0].name = RealName
    /\ \E i \in ToolStartsFor(0, 1) : E[i].id = PlaceholderId(0)
    /\ 0 \in DOMAIN lastChunk.pre.toolCalls
    /\ lastChunk.pre.toolCalls[0].id = PlaceholderId(0)

(***************************************************************************)
(* C6: every input_json_delta emitted for an argument fragment of source   *)
(* index i carries the index of the block that was opened for i, and that  *)
(* block is still open when the delta is emitted.                          *)
(***************************************************************************)
C6_DeltaOnOwnOpenBlock ==
    \A i \in 1..Len(E) :
       E[i].kind = "input_json_delta" =>
          \E j \in 1..(i - 1) :
             /\ IsToolStart(E[j])
             /\ E[j].src = E[i].src
             /\ E[j].index = E[i].index
             /\ \A k \in (j + 1)..(i - 1) :
                   ~(E[k].type = "content_block_stop" /\ E[k].index = E[j].index)

(***************************************************************************)
(* C7: the indices at which tool_use blocks are started increase strictly  *)
(* in order of first appearance, the index assigned to a source index      *)
(* never changes, and no other content_block_start of the stream uses the  *)
(* index of a tool_use block.                                              *)
(***************************************************************************)
C7_ToolIndicesIncreasingUnique ==
    /\ \A i, j \in 1..Len(E) :
          (i < j /\ IsToolStart(E[i]) /\ IsToolStart(E[j])) => E[i].index < E[j].index
    /\ \A idx \in DOMAIN lastChunk.pre.toolCallIndexToContentBlockIndex :
          /\ idx \in DOMAIN state.toolCallIndexToContentBlockIndex
          /\ state.toolCallIndexToContentBlockIndex[idx]
                = lastChunk.pre.toolCallIndexToContentBlockIndex[idx]
    /\ \A i, j \in 1..Len(E) :
          (i # j /\ IsToolStart(E[i]) /\ E[j].type = "content_block_start")
             => E[i].index # E[j].index

(***************************************************************************)
(* C8: once a chunk with a finish reason has been processed, no further    *)
(* content_block_start, content_block_delta, content_block_stop,           *)
(* message_delta or message_stop is emitted, and the converter stays       *)
(* finished: what remains is closing the output stream.                    *)
(***************************************************************************)
C8_FinishedIsFinal ==
    [][Finished => /\ state'.hasFinished
                   /\ ListedEvents(controller'.events) = ListedEvents(controller.events)]_vars

\* finished, with a further line of the same or a later read at hand
C8_Witness ==
    /\ state.hasFinished
    /\ pc = "lines"
    /\ linesLeft > 0
    /\ Positions("message_stop") # {}

(***************************************************************************)
(* C9: the chunk that carries the finish reason emits, in this order: its  *)
(* own content and tool-call deltas; content_block_stop for the block that *)
(* is open; message_delta with the mapped stop reason and the usage counts *)
(* (an absent count as 0); message_stop.                                   *)
(***************************************************************************)
C9_FinishOrder ==
    LastFinished =>
       /\ Len(E) >= lastChunk.mark + 2
       /\ E[Len(E)] = MessageStopEv
       /\ E[Len(E) - 1] =
             MessageDeltaEv(
                 MapStopReason(lastChunk.chunk.finish_reason),
                 IF lastChunk.chunk.usage.prompt_tokens = -1 THEN 0
                 ELSE lastChunk.chunk.usage.prompt_tokens,
                 IF lastChunk.chunk.usage.completion_tokens = -1 THEN 0
                 ELSE lastChunk.chunk.usage.completion_tokens)
       /\ \A i \in (lastChunk.mark + 1)..(Len(E) - 2) :
             IsBlockEvent(E[i]) \/ E[i].type = "message_start"
       /\ OpenBlocks(Len(E) - 2) = {}
       /\ OpenBlocks(Len(E) - 3) # {} => E[Len(E) - 2].type = "content_block_stop"
       /\ lastChunk.chunk.content # <<>> =>
             \E i \in (lastChunk.mark + 1)..(Len(E) - 3) :
                E[i].kind \in {"text_delta", "thinking_delta"}
       /\ \A t \in 1..Len(LastToolCalls) :
             (t = 1 /\ LastToolCalls[t].arguments # <<>>) =>
                \E i \in (lastChunk.mark + 1)..(Len(E) - 3) :
                   E[i].kind = "input_json_delta" /\ E[i].text = LastToolCalls[t].arguments

\* a finish chunk that carried text of its own closed the open text block
C9_Witness ==
    /\ LastFinished
    /\ lastChunk.chunk.content # <<>>
    /\ lastChunk.pre.hasStarted
    /\ Len(E) >= 4
    /\ E[Len(E) - 2].type = "content_block_stop"
    /\ E[Len(E) - 3].kind = "text_delta"
    /\ E[Len(E) - 1].input_tokens = 0

(***************************************************************************)
(* C10: the streaming converter and the non-streaming transcoder map the   *)
(* finish reason by the same fixed table: stop to end_turn, length to      *)
(* max_tokens, tool_calls to tool_use, content_filter to stop_sequence,    *)
(* every other value, or none, to end_turn.                                *)
(***************************************************************************)
C10_SameFinishReasonTable ==
    /\ ResponseStopReason("") = FinishReasonTable("")
    /\ LastFinished =>
          /\ Len(E) >= 2
          /\ E[Len(E) - 1].type = "message_delta"
          /\ E[Len(E) - 1].stop_reason = FinishReasonTable(lastChunk.chunk.finish_reason)
          /\ ResponseStopReason(lastChunk.chunk.finish_reason)
                = FinishReasonTable(lastChunk.chunk.finish_reason)

(***************************************************************************)
(* Vocabulary of the byte-level properties.                                *)
(***************************************************************************)
InitWorld == World(InitState, InitController)

\* the chunks of the lines that carry one, in order
RECURSIVE ValidChunks(_)
ValidChunks(lines) ==
    IF lines = <<>> THEN <<>>
    ELSE IF IsChunkLine(Head(lines))
    THEN <<JSONparse(Payload(Head(lines)))>> \o ValidChunks(Tail(lines))
    ELSE ValidChunks(Tail(lines))

\* the chunk processor applied to chunks, one after the other
RECURSIVE RunChunks(_, _)
RunChunks(w, chunks) ==
    IF chunks = <<>> THEN w
    ELSE RunChunks(processOpenAIChunk(w, Head(chunks)), Tail(chunks))

\* positions of hist.handed where an unparseable line sits between two chunk lines
GarbageBetween ==
    {i \in 2..(Len(hist.handed) - 1) :
        /\ IsGarbageLine(hist.handed[i])
        /\ IsChunkLine(hist.handed[i - 1])
        /\ IsChunkLine(hist.handed[i + 1])}

\* the one-read run over the bytes sent so far
OneRead == loopBody(InitWorld, <<>>, readChunk(InitBuffer, hist.sent))

\* the text of a line of bytes
TextOf(bytes) == decode(<<>>, bytes).text

(***************************************************************************)
(* C11: when the lines handled so far include a data line whose payload is *)
(* not parseable JSON, the events emitted and the converter state are the  *)
(* ones the valid chunks alone produce, and the output stream is neither   *)
(* errored nor closed before the upstream is done.                         *)
(***************************************************************************)
C11_GarbageLineIsInert ==
    (\E i \in 1..Len(hist.handed) : IsGarbageLine(hist.handed[i])) =>
        /\ \A valid \in {RunChunks(InitWorld, ValidChunks(hist.handed))} :
              /\ E = valid.c.events
              /\ state = valid.st
        /\ controller.sink # "errored"
        /\ controller.isClosed => pc = "done"

\* garbage between two chunk lines, both of which emitted events
C11_Witness ==
    /\ GarbageBetween # {}
    /\ state.totalChunks >= 2
    /\ Len(E) >= 4
    /\ pc = "read"

(***************************************************************************)
(* C12: whatever way the bytes sent so far were cut into reads, the events *)
(* emitted and the lines handed to the loop body are those of the run that *)
(* receives the same bytes in one read; every line handed over is a whole  *)
(* line of the byte sequence, in order, and is handed over once.           *)
(***************************************************************************)
C12_ReadPartitionIrrelevant ==
    /\ \A one \in {OneRead} :
          /\ E = one.w.c.events
          /\ state = one.w.st
          /\ hist.handed = one.handed
    /\ Len(hist.handed) <= Len(SplitLines(hist.sent)) - 1
    /\ \A i \in 1..Len(hist.handed) : \E l \in LineSet : hist.handed[i] = TextOf(l)

\* a line with a two-byte character arrived cut inside the character, over
\* three reads or more, and was processed
C12_Witness ==
    /\ Len(hist.handed) >= 2
    /\ \E i \in 1..Len(hist.handed) : hist.handed[i] = TextOf(TextLine)
    /\ buffer.pending # <<>>
    /\ state.contentChunks >= 1
    /\ buffer.text # <<>>
    /\ Len(E) >= 3

(***************************************************************************)
(* C13: once the consumer has cancelled the output stream, the converter   *)
(* eventually has released the upstream reader, whatever the upstream does *)
(* (deliver more lines, or never resolve another read).                    *)
(***************************************************************************)
C13_CancelReleasesReader ==
    (controller.sink = "cancelled") ~> (reader # "locked")

(***************************************************************************)
(* C14: when start() has ended, by whichever path the loop ended (upstream *)
(* done, a failed read, a closed controller seen at the top of the loop),  *)
(* releaseLock() has been called on the reader, and start() has not        *)
(* rejected even when releaseLock() threw.                                 *)
(***************************************************************************)
Ended == pc \in {"done", "rejected"}

C14_ReaderReleasedOnEveryExit ==
    Ended => (pc = "done" /\ reader \in {"released", "release-failed"})

\* a read failed after some events, and releaseLock() threw
C14_Witness ==
    /\ pc = "done"
    /\ controller.sink = "errored"
    /\ reader = "release-failed"
    /\ Len(E) >= 3

(***************************************************************************)
(* Vocabulary of the request transcoder's properties.                      *)
(***************************************************************************)
RequestReturned == output.fn = "transformClaudeToOpenAI"
Out == output.messages
In == input.messages

\* the request carries a system prompt: a non-empty string, or an array
SystemPresent == input.system.kind = "array" \/ input.system.text # <<>>
SystemOffset == IF SystemPresent THEN 1 ELSE 0

\* ids of the tool calls an assistant message of the output carries
CallIds(message) == {message.tool_calls[i].id : i \in 1..Len(message.tool_calls)}
CallPosition(message, id) ==
    Min({i \in 1..Len(message.tool_calls) : message.tool_calls[i].id = id})

\* some assistant message of the input carries a tool_use block with this id
CalledInInput(id) ==
    \E i \in 1..Len(In) :
        /\ In[i].role = "assistant"
        /\ In[i].content.kind = "array"
        /\ \E b \in 1..Len(In[i].content.blocks) :
              IsToolUse(In[i].content.blocks[b]) /\ In[i].content.blocks[b].id = id

\* the tool_result blocks of the input that have a tool_use_id, as (message,
\* block) positions, and the tool-role messages of the output, as positions
ResultBlocks ==
    {<<i, b>> \in (1..Len(In)) \X (1..3) :
        /\ In[i].content.kind = "array"
        /\ b <= Len(In[i].content.blocks)
        /\ IsToolResult(In[i].content.blocks[b])}
ToolMessages == {j \in 1..Len(Out) : Out[j].role = "tool"}

(***************************************************************************)
(* C15: for a request whose messages all have string content, the output   *)
(* has one message per input message, in the same order and with the same  *)
(* role and content, preceded by one system message exactly when the       *)
(* request has a system prompt (a non-empty string, or an array).          *)
(***************************************************************************)
C15_StringMessagesKept ==
    (RequestReturned /\ \A i \in 1..Len(In) : In[i].content.kind = "string") =>
        /\ Len(Out) = Len(In) + SystemOffset
        /\ SystemPresent => Out[1].role = "system"
        /\ \A i \in 1..Len(In) :
              /\ Out[i + SystemOffset].role = In[i].role
              /\ Out[i + SystemOffset].content = In[i].content

\* three string messages after an array-form system prompt
C15_Witness ==
    /\ RequestReturned
    /\ input.system.kind = "array"
    /\ In = <<UserHi, AssistantOk, UserHi>>
    /\ Len(Out) = 4
    /\ Out[1].content.text = <<"a", " ", "b">>

(***************************************************************************)
(* C16: every tool-role message whose id is called by an assistant message *)
(* of the input sits in the run of tool-role messages that directly        *)
(* follows an assistant message carrying that call, and that run is in the *)
(* order of the tool calls of that assistant message.                      *)
(***************************************************************************)
C16_ResultsFollowTheirCall ==
    RequestReturned =>
        \A j \in ToolMessages :
            CalledInInput(Out[j].tool_call_id) =>
                \E a \in 1..(j - 1) :
                    /\ Out[a].role = "assistant"
                    /\ \A k \in (a + 1)..j :
                          /\ Out[k].role = "tool"
                          /\ Out[k].tool_call_id \in CallIds(Out[a])
                    /\ \A k \in (a + 1)..j, l \in (a + 1)..j :
                          k < l => CallPosition(Out[a], Out[k].tool_call_id)
                                       <= CallPosition(Out[a], Out[l].tool_call_id)

\* the results came later and in the other order (B before A), with a user
\* text among them
C16_Witness ==
    /\ RequestReturned
    /\ In = <<UserHi, CallsAB, ResultsBA>>
    /\ Len(Out) = 5
    /\ Out[2].role = "assistant"
    /\ Out[3].tool_call_id = "A"
    /\ Out[4].tool_call_id = "B"
    /\ Out[5].role = "user"

(***************************************************************************)
(* C17: the tool-role messages of the output are, one for one, the         *)
(* tool_result blocks of the input that have a tool_use_id; those whose id *)
(* no assistant message calls are the last messages of the output.         *)
(***************************************************************************)
C17_EachResultExactlyOnce ==
    RequestReturned =>
        /\ \E f \in [ToolMessages -> ResultBlocks] :
              /\ \A j, k \in ToolMessages : f[j] = f[k] => j = k
              /\ \A rb \in ResultBlocks : \E j \in ToolMessages : f[j] = rb
              /\ \A j \in ToolMessages :
                    Out[j] = toolResponse(In[f[j][1]].content.blocks[f[j][2]])
        /\ \A j \in ToolMessages :
              ~CalledInInput(Out[j].tool_call_id) =>
                  \A k \in j..Len(Out) :
                      Out[k].role = "tool" /\ ~CalledInInput(Out[k].tool_call_id)

\* a result flushed after its call and a result left for the end
C17_Witness ==
    /\ RequestReturned
    /\ In = <<ResultC, CallsAB, ResultsBA>>
    /\ Len(Out) = 5
    /\ Out[2].tool_call_id = "A"
    /\ Out[3].tool_call_id = "B"
    /\ Out[4].role = "user"
    /\ Out[5].tool_call_id = "C"

(***************************************************************************)
(* Vocabulary of the response transcoder's properties.                     *)
(***************************************************************************)
ResponseReturned == output.fn = "transformOpenAIToClaude"
NoChoices == ~input.hasChoices \/ input.choices = <<>>
OutContent == output.message.content
FirstMessage == input.choices[1].message

\* the tool_use blocks of the returned content, in order
ToolUses == SelectSeq(OutContent, LAMBDA b : b.type = "tool_use")

\* an argument string that JSON.parse rejects
NotJSON(arguments) == arguments.kind = "string" /\ arguments.text \notin ObjectTexts

(***************************************************************************)
(* C18: transformOpenAIToClaude throws, returning no message, exactly when *)
(* choices is absent or empty; otherwise it returns the message it returns *)
(* for the response cut down to its first choice.                          *)
(***************************************************************************)
C18_FailsIffNoChoices ==
    ResponseReturned =>
        /\ output.threw <=> NoChoices
        /\ output.threw => output.message = NoMessage
        /\ ~NoChoices =>
              output.message
                  = transformOpenAIToClaude(
                        [input EXCEPT !.choices = <<input.choices[1]>>]).message

\* three choices, the later ones with another text and another finish reason
C18_Witness ==
    /\ ResponseReturned
    /\ Len(input.choices) = 3
    /\ input.choices[1].finish_reason = "stop"
    /\ input.choices[1].message.content.text = <<"h", "i">>
    /\ ~output.threw
    /\ output.message.stop_reason = "end_turn"
    /\ Len(OutContent) = 1

(***************************************************************************)
(* C19: a response whose first choice has no tool calls, no annotations    *)
(* and finish_reason "stop" gives a message with exactly one content       *)
(* block, of type text, and stop_reason "end_turn".                        *)
(***************************************************************************)
C19_TextOnlyStop ==
    (/\ ResponseReturned
     /\ ~NoChoices
     /\ FirstMessage.tool_calls = <<>>
     /\ ~FirstMessage.annotations.has
     /\ input.choices[1].finish_reason = "stop") =>
        /\ ~output.threw
        /\ Len(OutContent) = 1
        /\ OutContent[1].type = "text"
        /\ FirstMessage.content.kind = "string" => OutContent[1].text = FirstMessage.content.text
        /\ output.message.stop_reason = "end_turn"

\* the text of the choice is in the one block
C19_Witness ==
    /\ ResponseReturned
    /\ ~NoChoices
    /\ Len(input.choices) = 1
    /\ FirstMessage.tool_calls = <<>>
    /\ ~FirstMessage.annotations.has
    /\ input.choices[1].finish_reason = "stop"
    /\ OutContent[1].text = <<"h", "i">>
    /\ output.message.stop_reason = "end_turn"

(***************************************************************************)
(* C20 as stated: the content has one tool_use block per tool call, in the *)
(* order of the calls, the call never throws, and every tool call whose    *)
(* argument string is not valid JSON has the input {text: <that string>}.  *)
(***************************************************************************)
OneToolUsePerCall ==
    /\ ~output.threw
    /\ Len(ToolUses) = Len(FirstMessage.tool_calls)
    /\ \A i \in 1..Len(ToolUses) :
          /\ ToolUses[i].id = FirstMessage.tool_calls[i].id
          /\ ToolUses[i].name = FirstMessage.tool_calls[i].name
          /\ FirstMessage.tool_calls[i].arguments.kind = "string"
             /\ FirstMessage.tool_calls[i].arguments.text \in ObjectTexts
                => ToolUses[i].input = ParsedObject(FirstMessage.tool_calls[i].arguments.text)

C20_FallbackForEveryInvalidString ==
    (ResponseReturned /\ ~NoChoices /\ FirstMessage.tool_calls # <<>>) =>
        /\ OneToolUsePerCall
        /\ \A i \in 1..Len(ToolUses) :
              NotJSON(FirstMessage.tool_calls[i].arguments) =>
                  ToolUses[i].input = TextObject(FirstMessage.tool_calls[i].arguments.text)

(***************************************************************************)
(* C20 amended: as above, but the input is {text: <that string>} only for  *)
(* a non-empty argument string that is not valid JSON; a tool call whose   *)
(* argument string is empty or missing has the input {}.                   *)
(***************************************************************************)
C20_FallbackForNonEmptyInvalidString ==
    (ResponseReturned /\ ~NoChoices /\ FirstMessage.tool_calls # <<>>) =>
        /\ OneToolUsePerCall
        /\ \A i \in 1..Len(ToolUses) :
              /\ (NotJSON(FirstMessage.tool_calls[i].arguments)
                  /\ FirstMessage.tool_calls[i].arguments.text # <<>>)
                    => ToolUses[i].input
                          = TextObject(FirstMessage.tool_calls[i].arguments.text)
              /\ (FirstMessage.tool_calls[i].arguments.kind = "absent"
                  \/ FirstMessage.tool_calls[i].arguments.text = <<>>)
                    => ToolUses[i].input = EmptyObject

\* an unparseable argument string before a parseable one, after a text block
C20_Witness ==
    /\ ResponseReturned
    /\ ~NoChoices
    /\ Len(FirstMessage.tool_calls) = 2
    /\ FirstMessage.tool_calls[1].arguments = StringArguments(<<"{", "k">>)
    /\ FirstMessage.tool_calls[2].arguments = StringArguments(<<"{", "k", "}">>)
    /\ Len(OutContent) = 3
    /\ OutContent[1].type = "text"
    /\ OutContent[2].input = TextObject(<<"{", "k">>)
    /\ OutContent[3].input.members = <<"k">>

(***************************************************************************)
(* C21: every message transformOpenAIToClaude returns has at least one     *)
(* content block; when the first choice has no text, no tool calls and no  *)
(* annotations, the content is exactly one text block with empty text.     *)
(***************************************************************************)
NothingToEmit ==
    /\ FirstMessage.content.text = <<>>
    /\ FirstMessage.tool_calls = <<>>
    /\ ~FirstMessage.annotations.has

C21_ContentNeverEmpty ==
    (ResponseReturned /\ ~output.threw) =>
        /\ OutContent # <<>>
        /\ NothingToEmit =>
              /\ Len(OutContent) = 1
              /\ OutContent[1].type = "text"
              /\ OutContent[1].text = <<>>

\* a first choice with null content and finish_reason "length"
C21_Witness ==
    /\ ResponseReturned
    /\ ~output.threw
    /\ NothingToEmit
    /\ FirstMessage.content.kind = "null"
    /\ input.choices[1].finish_reason = "length"
    /\ Len(OutContent) = 1
(***************************************************************************)
(* C22.  Two conversions whose reads interleave in any order: each one's   *)
(* emitted events, and its converter state, are those of the same chunks   *)
(* converted alone, from a fresh start; nothing of one conversion shows in *)
(* the other.                                                              *)
(***************************************************************************)
Alone(i) == RunChunks(InitWorld, twin.fed[i])

ForwardFailed == forward.pc = "done" /\ forward.failure # "none"

EnvelopeReceived ==
    /\ forward.reply.statusCode = 500
    /\ forward.reply.payload.type = "error"
    /\ forward.reply.payload.error.type = "api_error"

C23_FailureGivesEnvelope ==
    ForwardFailed => (EnvelopeReceived /\ ~forward.escaped)

\* the part that holds: a failure before the head of a streaming answer is
\* written is answered with the envelope
C23_EarlyFailureGivesEnvelope ==
    (ForwardFailed /\ forward.failure # "stream failed") =>
        (EnvelopeReceived /\ ~forward.escaped)
(***************************************************************************)
(* C24.  The content-block cursor (contentIndex) never decreases, and once *)
(* content_block_stop has been emitted for an index no later               *)
(* content_block_start is emitted for that index.                          *)
(***************************************************************************)
StopsBefore(j) == {i \in 1..(j - 1) : E[i].type = "content_block_stop"}

C24_CursorMonotoneNoReopen ==
    /\ state.contentIndex >= lastChunk.pre.contentIndex
    /\ \A j \in Positions("content_block_start") :
          \A i \in StopsBefore(j) : E[j].index > E[i].index

\* the last chunk moved the cursor, and a block was started after two were stopped
C24_Witness ==
    /\ state.contentIndex > lastChunk.pre.contentIndex
    /\ \E j \in Positions("content_block_start") :
          /\ Cardinality(StopsBefore(j)) >= 2
          /\ E[j].kind = "tool_use"
(***************************************************************************)
(* C25.  When a tool-call source index is seen for the first time while an *)
(* ordinary text block is open, content_block_stop for the text block's    *)
(* index is emitted before the tool_use content_block_start, and the       *)
(* tool_use block is started at the next index; when no block is open, no  *)
(* content_block_stop is emitted before the tool_use start.                *)
(***************************************************************************)
ToolStarts == {j \in 1..Len(E) : IsToolStart(E[j])}

\* the indices of the text blocks open after the first n events
OpenTextBlocks(n) ==
    {E[i].index : i \in {i \in 1..n : /\ E[i].type = "content_block_start"
                                       /\ E[i].kind = "text"
                                       /\ \A k \in (i + 1)..n :
                                             ~(E[k].type = "content_block_stop"
                                               /\ E[k].index = E[i].index)}}

\* the content_block_stop emitted just before the tool_use start at j, if any
StopBefore(j) ==
    IF j > 1 /\ E[j - 1].type = "content_block_stop" THEN {j - 1} ELSE {}

C25_TextClosedBeforeTool ==
    \A j \in ToolStarts :
        /\ OpenTextBlocks(j - 1) = {}
        /\ \A t \in OpenTextBlocks(j - 2) : E[j].index = t + 1

C25_NoStopWithoutOpenBlock ==
    \A j \in ToolStarts :
        \A i \in StopBefore(j) : E[i].index \in OpenBlocks(i - 1)

C25_ToolStartAfterText == C25_TextClosedBeforeTool /\ C25_NoStopWithoutOpenBlock
(***************************************************************************)
(* C26.  When a complete reasoning tag is found while a text block is      *)
(* open, the text block is closed, content_block_start (thinking),         *)
(* content_block_delta (thinking_delta) and content_block_stop are emitted *)
(* at the next index, and any ordinary text emitted afterwards is carried  *)
(* by a text block opened with its own content_block_start at an index     *)
(* after the thinking block.                                               *)
(***************************************************************************)
\* the thinking blocks started while a text block was open
ThinkingAfterText ==
    {j \in 2..Len(E) : /\ E[j].type = "content_block_start"
                       /\ E[j].kind = "thinking"
                       /\ OpenTextBlocks(j - 2) # {}}

C26_ThinkingBlockAtNextIndex ==
    \A j \in ThinkingAfterText :
        /\ E[j - 1].type = "content_block_stop"
        /\ OpenTextBlocks(j - 2) = {E[j - 1].index}
        /\ E[j].index = E[j - 1].index + 1
        /\ Len(E) >= j + 2
        /\ E[j + 1].kind = "thinking_delta" /\ E[j + 1].index = E[j].index
        /\ E[j + 2].type = "content_block_stop" /\ E[j + 2].index = E[j].index

C26_LaterTextInOwnBlock ==
    \A j \in ThinkingAfterText :
        \A k \in (j + 1)..Len(E) :
            E[k].kind = "text_delta" =>
                /\ E[k].index > E[j].index
                /\ E[k].index \in OpenTextBlocks(k - 1)

C26_ThinkingSplitsText == C26_ThinkingBlockAtNextIndex /\ C26_LaterTextInOwnBlock
(***************************************************************************)
(* C27.  At most one thinking block is emitted in a stream; after it has   *)
(* been emitted, further tagged text arriving in the stream is emitted as  *)
(* ordinary text in text_delta events, neither extracted as thinking nor   *)
(* removed from the output.                                                *)
(***************************************************************************)
ThinkingStarts ==
    {j \in 1..Len(E) : E[j].type = "content_block_start" /\ E[j].kind = "thinking"}

\* the last chunk was a text delta holding a complete tag, handed to the text
\* handler after the thinking block had been emitted
TaggedAfterThinking ==
    /\ lastChunk.chunk.choices = "one"
    /\ Includes(lastChunk.chunk.content, OpenTag(TagThinking))
    /\ Includes(lastChunk.chunk.content, CloseTag(TagThinking))
    /\ lastChunk.pre.hasThinkingContent
    /\ ~lastChunk.pre.hasFinished

C27_AtMostOneThinkingBlock == Cardinality(ThinkingStarts) <= 1

C27_LaterTagsAreText ==
    TaggedAfterThinking =>
        /\ \A k \in (lastChunk.mark + 1)..Len(E) : E[k].kind # "thinking_delta"
        /\ \E k \in (lastChunk.mark + 1)..Len(E) :
              /\ E[k].kind = "text_delta"
              /\ Includes(E[k].text, lastChunk.chunk.content)

C27_OneThinkingRestText == C27_AtMostOneThinkingBlock /\ C27_LaterTagsAreText
(***************************************************************************)
(* C28.  For a sequence of text deltas in which no complete reasoning tag  *)
(* ever forms, each delta's text is emitted in full as a text_delta when   *)
(* it arrives and the content buffer is empty afterwards: the              *)
(* concatenation of the emitted text_delta payloads is the concatenation   *)
(* of the upstream text deltas.                                            *)
(***************************************************************************)
\* the text_delta payloads of the first n events, concatenated
RECURSIVE TextUpTo(_)
TextUpTo(n) ==
    IF n = 0 THEN <<>>
    ELSE TextUpTo(n - 1) \o (IF E[n].kind = "text_delta" THEN E[n].text ELSE <<>>)

\* the upstream text deltas of the split scenario so far, concatenated
UpstreamText == SubSeq(ReasoningText, 1, Len(ReasoningText) - Len(rest))

\* no complete tag was in the buffer at any extraction (the tag of the
\* scenario has a body, so finding it sets hasThinkingContent)
NoTagFormed == ~state.hasThinkingContent

LastWasText == lastChunk.chunk.choices = "one" /\ lastChunk.chunk.content # <<>>

C28_UntaggedTextPassesThrough ==
    NoTagFormed =>
        /\ state.contentBuffer = <<>>
        /\ TextUpTo(Len(E)) = UpstreamText
        /\ LastWasText =>
              /\ Len(E) > lastChunk.mark
              /\ E[Len(E)].kind = "text_delta"
              /\ E[Len(E)].text = lastChunk.chunk.content
              /\ \A k \in (lastChunk.mark + 1)..(Len(E) - 1) : E[k].kind # "text_delta"

\* the whole text went through in several deltas, the cuts inside the tags
C28_Witness ==
    /\ NoTagFormed
    /\ rest = <<>>
    /\ pieces >= 2
    /\ TextUpTo(Len(E)) = ReasoningText
    /\ state.contentBuffer = <<>>
(***************************************************************************)
(* C29.  Within one chunk, of several tool-call entries with the same      *)
(* source index only the first is processed: the later ones emit no event  *)
(* and leave the tool call's accumulated arguments, id and name unchanged, *)
(* while the entries with other indices are each processed once.           *)
(***************************************************************************)
\* the events the last chunk emitted for source index idx
LastEventsFor(idx, kind) ==
    {k \in (lastChunk.mark + 1)..Len(E) : E[k].kind = kind /\ E[k].src = idx}

\* the arguments accumulated for idx before the last chunk
ArgumentsBefore(idx) ==
    IF idx \in DOMAIN lastChunk.pre.toolCalls
    THEN lastChunk.pre.toolCalls[idx].arguments
    ELSE <<>>

\* id and name of idx after the first entry for idx alone was handled
NamedByFirst(idx) ==
    IF idx \notin DOMAIN lastChunk.pre.toolCalls
    THEN [id |-> toolCallIdOf(FirstDeltaFor(idx), idx),
          name |-> toolCallNameOf(FirstDeltaFor(idx), idx)]
    ELSE IF /\ FirstDeltaFor(idx).id # <<>>
            /\ FirstDeltaFor(idx).name # <<>>
            /\ wasTemporary(lastChunk.pre.toolCalls[idx])
    THEN [id |-> FirstDeltaFor(idx).id, name |-> FirstDeltaFor(idx).name]
    ELSE [id |-> lastChunk.pre.toolCalls[idx].id,
          name |-> lastChunk.pre.toolCalls[idx].name]

C29_FirstEntryPerIndexOnly ==
    \A idx \in LastIndices :
        /\ Cardinality(LastEventsFor(idx, "tool_use"))
              = IF idx \in DOMAIN lastChunk.pre.toolCalls THEN 0 ELSE 1
        /\ Cardinality(LastEventsFor(idx, "input_json_delta"))
              = IF FirstDeltaFor(idx).arguments # <<>> THEN 1 ELSE 0
        /\ \A k \in LastEventsFor(idx, "input_json_delta") :
              E[k].text = FirstDeltaFor(idx).arguments
        /\ state.toolCalls[idx].arguments
              = ArgumentsBefore(idx) \o FirstDeltaFor(idx).arguments
        /\ state.toolCalls[idx].id = NamedByFirst(idx).id
        /\ state.toolCalls[idx].name = NamedByFirst(idx).name

\* the last chunk had two entries for one index, the second with an id, a name
\* and arguments of its own
C29_Witness ==
    /\ Len(LastToolCalls) = 2
    /\ Cardinality(LastIndices) = 1
    /\ LastToolCalls[2].id # <<>>
    /\ LastToolCalls[2].arguments # <<>>
    /\ \E idx \in LastIndices :
          /\ state.toolCalls[idx].id = PlaceholderId(idx)
          /\ state.toolCalls[idx].arguments
                = ArgumentsBefore(idx) \o LastToolCalls[1].arguments
(***************************************************************************)
(* C30.  A `data: [DONE]` line, wherever it appears in the upstream, emits *)
(* no event and changes no converter state (it neither marks the stream    *)
(* finished nor closes it); a line that does not begin with `data: ` is    *)
(* likewise skipped without effect.                                        *)
(***************************************************************************)
IsDoneLine(line) == StartsWith(line, DataPrefix) /\ Payload(line) = DoneSentinel
IsNonDataLine(line) == ~StartsWith(line, DataPrefix)

DoneLinesHandled == {i \in 1..Len(hist.handed) : IsDoneLine(hist.handed[i])}
NonDataLinesHandled == {i \in 1..Len(hist.handed) : IsNonDataLine(hist.handed[i])}

C30_SkippedLinesAreInert ==
    (DoneLinesHandled # {} \/ NonDataLinesHandled # {}) =>
        /\ \A valid \in {RunChunks(InitWorld, ValidChunks(hist.handed))} :
              /\ E = valid.c.events
              /\ state = valid.st
        /\ controller.isClosed => pc = "done"
        /\ pc = "read" => controller.sink = "open"

\* the sentinel first, then a comment, then a chunk that was processed, with the
\* conversion still going on
C30_Witness ==
    /\ 1 \in DoneLinesHandled
    /\ 2 \in NonDataLinesHandled
    /\ Len(hist.handed) = 3
    /\ state.totalChunks = 1
    /\ E # <<>>
    /\ ~state.hasFinished
    /\ pc = "read"
(***************************************************************************)
(* C31.  A closed downstream is never a fault.  Once the wrapper is marked *)
(* closed, enqueue and close change nothing; an enqueue or a close that    *)
(* hits an underlying controller the consumer has closed marks the wrapper *)
(* closed and raises nothing; and the loop then emits no more and ends,    *)
(* the output stream never being put in error.                             *)
(***************************************************************************)
WrapperClosedIsFinal == controller.isClosed => controller' = controller

DownstreamClosedIsQuiet ==
    controller.sink = "cancelled" =>
        /\ controller'.sink = "cancelled"
        /\ controller'.events = controller.events

C31_ClosedDownstreamIsNoFault ==
    /\ [][WrapperClosedIsFinal]_vars
    /\ [][DownstreamClosedIsQuiet]_vars
    /\ (controller.isClosed ~> pc = "done")

\* the consumer cancelled after events were emitted, a later enqueue marked the
\* wrapper closed, and start() has ended
C31_Witness ==
    /\ controller.isClosed
    /\ controller.sink = "cancelled"
    /\ E # <<>>
    /\ state.totalChunks >= 2
    /\ pc = "done"
(***************************************************************************)
(* C32.  Whenever the request has a system prompt (a string, or an array   *)
(* of text parts), the first message of the output has role system; for    *)
(* the array form its content is the parts' texts joined with exactly one  *)
(* space; no other output message precedes it.                             *)
(***************************************************************************)
\* the texts of the first n parts, one space between neighbours
RECURSIVE SpacedTexts(_, _)
SpacedTexts(blocks, n) ==
    IF n = 0 THEN <<>>
    ELSE IF n = 1 THEN blocks[1].text
    ELSE SpacedTexts(blocks, n - 1) \o <<" ">> \o blocks[n].text

SystemMessagesOut == {j \in 1..Len(Out) : Out[j].role = "system"}

C32_SystemPromptComesFirst ==
    (RequestReturned /\ SystemPresent) =>
        /\ Out # <<>>
        /\ SystemMessagesOut = {1}
        /\ Out[1].content.kind = "string"
        /\ input.system.kind = "string" => Out[1].content.text = input.system.text
        /\ input.system.kind = "array" =>
              Out[1].content.text
                = SpacedTexts(input.system.blocks, Len(input.system.blocks))

\* an array-form system prompt of two parts before messages with tool calls
C32_Witness ==
    /\ RequestReturned
    /\ input.system.kind = "array"
    /\ Len(input.system.blocks) = 2
    /\ Out[1].role = "system"
    /\ Out[1].content.text = <<"a", " ", "b">>
    /\ \E j \in 2..Len(Out) : Out[j].role = "tool"
(***************************************************************************)
(* C33.  Every content_block_delta and every content_block_stop carries an *)
(* index for which a content_block_start was emitted earlier and no        *)
(* content_block_stop since, and the delta's subtype matches the type of   *)
(* the open block (text_delta on text, thinking_delta on thinking,         *)
(* input_json_delta on tool_use), for any order of chunks.                 *)
(***************************************************************************)
\* the position of the start of the block open at index idx after n events
OpenStarts(n, idx) ==
    {i \in 1..n : /\ E[i].type = "content_block_start"
                  /\ E[i].index = idx
                  /\ \A k \in (i + 1)..n :
                        ~(E[k].type = "content_block_stop" /\ E[k].index = idx)}

DeltaKindOf(blockKind) ==
    CASE blockKind = "text" -> "text_delta"
      [] blockKind = "thinking" -> "thinking_delta"
      [] blockKind = "tool_use" -> "input_json_delta"
      [] OTHER -> "none"

C33_StopsAddressOpenBlocks ==
    \A k \in Positions("content_block_stop") : OpenStarts(k - 1, E[k].index) # {}

C33_DeltasAddressOpenBlocks ==
    \A k \in Positions("content_block_delta") :
        /\ OpenStarts(k - 1, E[k].index) # {}
        /\ \A i \in OpenStarts(k - 1, E[k].index) : E[k].kind = DeltaKindOf(E[i].kind)

C33_EventsAddressOpenBlocks == C33_StopsAddressOpenBlocks /\ C33_DeltasAddressOpenBlocks
(***************************************************************************)
(* C34.  At every point of the output at most one content block is open:   *)
(* no content_block_start is emitted while a block started before (text,   *)
(* thinking or tool_use) has not been stopped, text deltas after a tool    *)
(* call included.                                                          *)
(***************************************************************************)
\* the starts among the first n events that no later stop of their index, up to
\* n, has closed
UnstoppedStarts(n) ==
    {i \in 1..n : /\ E[i].type = "content_block_start"
                  /\ \A k \in (i + 1)..n :
                        ~(E[k].type = "content_block_stop" /\ E[k].index = E[i].index)}

C34_AtMostOneOpenBlock ==
    \A j \in Positions("content_block_start") : UnstoppedStarts(j - 1) = {}

(***************************************************************************)
(* C35.  When message_stop is emitted, every content block started in the  *)
(* stream has been stopped exactly once: content_block_start and           *)
(* content_block_stop events are equal in number and pair up index by      *)
(* index.                                                                  *)
(***************************************************************************)
StartsAt(idx) == {i \in Positions("content_block_start") : E[i].index = idx}
StopsAt(idx) == {i \in Positions("content_block_stop") : E[i].index = idx}
BlockIndices == {E[i].index : i \in {i \in 1..Len(E) : IsBlockEvent(E[i])}}

C35_BlocksPairedAtMessageStop ==
    Positions("message_stop") # {} =>
        /\ Cardinality(Positions("content_block_start"))
              = Cardinality(Positions("content_block_stop"))
        /\ \A idx \in BlockIndices :
              /\ Cardinality(StartsAt(idx)) = 1
              /\ Cardinality(StopsAt(idx)) = 1
              /\ \A i \in StartsAt(idx), k \in StopsAt(idx) : i < k
(***************************************************************************)
(* C36.  Across any sequence of text deltas, ones with a reasoning tag     *)
(* included, no upstream text is emitted more than once: the concatenated  *)
(* text_delta payloads are the upstream text with the extracted tag        *)
(* removed, up to the whitespace trimmed at the tag.                       *)
(***************************************************************************)
\* s without its whitespace
Squeeze(s) == SelectSeq(s, LAMBDA ch : ch \notin WhiteSpace)

\* the tag of the split scenario, and a text without it
HiddenTag ==
    OpenTag(TagThinking) \o <<"h","i","d","d","e","n">> \o CloseTag(TagThinking)

\* what the text deltas are to carry: the upstream so far, less the tag once it
\* has been extracted
ExpectedText ==
    IF state.hasThinkingContent THEN ReplaceFirst(UpstreamText, HiddenTag)
    ELSE UpstreamText

C36_TextSentOnce == Squeeze(TextUpTo(Len(E))) = Squeeze(ExpectedText)
(***************************************************************************)
(* C37.  A data line whose JSON parses but carries none of choices, model  *)
(* and id emits exactly one error event and changes no converter state but *)
(* the total-chunk counter: has-started and has-finished stay as they      *)
(* were, the stream is not closed, and a later valid chunk is processed as *)
(* if the line had not occurred.                                           *)
(***************************************************************************)
LastWasInvalid == lastChunk.chunk = InvalidChunk /\ lastChunk.pre.totalChunks < state.totalChunks

\* the world before the last chunk, and the world now with the chunk and its
\* error event forgotten
WorldBeforeLast ==
    World(lastChunk.pre, [controller EXCEPT !.events = SubSeq(E, 1, lastChunk.mark)])

Forget(w) ==
    [w EXCEPT !.st.totalChunks = @ - 1,
              !.c.events = SelectSeq(@, LAMBDA e : e.type # "error")]

WithoutErrors(w) == [w EXCEPT !.c.events = SelectSeq(@, LAMBDA e : e.type # "error")]

C37_InvalidChunkOnlyReportsError ==
    LastWasInvalid =>
        /\ E = SubSeq(E, 1, lastChunk.mark) \o <<ErrorEv>>
        /\ state = [lastChunk.pre EXCEPT !.totalChunks = @ + 1]
        /\ pc # "done" => ~controller.isClosed /\ controller.sink = "open"
        /\ \A chunk \in Chunks :
              Forget(processOpenAIChunk(World(state, controller), chunk))
                = WithoutErrors(processOpenAIChunk(WorldBeforeLast, chunk))

\* the invalid chunk came in the middle of a text block, with a line still to
\* be handled
C37_Witness ==
    /\ LastWasInvalid
    /\ lastChunk.pre.hasTextContentStarted
    /\ ~state.hasFinished
    /\ E[Len(E)] = ErrorEv
    /\ pc = "lines"
(***************************************************************************)
(* C38.  Whenever the upstream terminates, the conversion terminates too:  *)
(* when the upstream reports done the output stream is closed, whether or  *)
(* not a finish reason was seen, and when an upstream read fails the       *)
(* output stream is put in error (a stream the consumer has cancelled      *)
(* stays as it is); in neither case does the converter wait on or emit     *)
(* further events.                                                         *)
(***************************************************************************)
\* start() has ended: the output stream is no longer open
EndedMeansNotOpen == pc = "done" => controller.sink # "open"

UpstreamEndEndsConversion ==
    /\ UpstreamDone =>
          /\ pc' = "done"
          /\ controller'.isClosed
          /\ controller.sink = "open" => controller'.sink = "closed"
          /\ controller'.events = controller.events
    /\ ReadError =>
          /\ pc' = "done"
          /\ controller.sink = "open" => controller'.sink = "errored"
          /\ controller'.events = controller.events
    /\ pc = "done" => (pc' = "done" /\ controller' = controller /\ state' = state)

C38_UpstreamEndEndsConversion ==
    /\ []EndedMeansNotOpen
    /\ [][UpstreamEndEndsConversion]_vars

\* a read failed in the middle of a message, and the output stream is in error
C38_Witness ==
    /\ pc = "done"
    /\ controller.sink = "errored"
    /\ E # <<>>
    /\ ~state.hasFinished
(***************************************************************************)
(* C39.  Every complete data line the upstream delivers is handed to the   *)
(* chunk processor before the output stream is closed, the final line of   *)
(* the stream included when the upstream ends without a newline after it.  *)
(***************************************************************************)
\* the lines of everything the upstream sent, the last one with or without its
\* newline
SentLines == SplitLines(TextOf(hist.sent))

\* the upstream is done and start() has ended, no finish reason having cut the
\* for loop short
EndedUnfinished == pc = "done" /\ wire = <<>> /\ ~state.hasFinished

====
